---- MODULE Spec2Model ----
(***************************************************************************)
(* invest-manager: the orchestration pipeline (scheduler, manual /analyze  *)
(* command), the report delivery of the Telegram bot and its message       *)
(* chunker.                                                                *)
(*                                                                         *)
(* Texts are Go strings: sequences of bytes (len() counts bytes), written  *)
(* here as sequences of byte values 0..255.                                *)
(***************************************************************************)
EXTENDS Integers, Sequences, FiniteSets, Bags, TLC

VARIABLES
    runs,          \* bag of pipeline executions (goroutines running the workflow)
    cronRunning,   \* cron.Cron: running flag of the scheduler's cron
    cronEntries,   \* cron.Cron: number of registered "0 7 * * *" entries
    stopWaiting,   \* Scheduler.Stop is blocked in <-ctx.Done()
    botState,      \* Bot: "new", "listening" (handleUpdates running), "stopped"
    smText,        \* splitMessage: the argument message
    smMax,         \* splitMessage: the argument maxLength
    smMessage,     \* splitMessage: the local message (remaining text)
    smChunks,      \* splitMessage: the local chunks
    smPc,          \* splitMessage: position ("off", "entry", "loop", "done")
    today,         \* the clock: time.Now().In(s.timezone).Day()
    chatID,        \* Bot.chatID: the configured chat, a string
    updates,       \* the updates of the long poll so far, handled or waiting
    paInput,       \* the pieces paText was put together from
    paText,        \* parseAnalysisResponse: the argument analysisText
    paPositions,   \* parseAnalysisResponse: portfolio.Positions
    paAnalysis,    \* parseAnalysisResponse: <<>>, or the analysis returned
    paPc           \* parseAnalysisResponse: "off", "called", "returned"

vars == <<runs, cronRunning, cronEntries, stopWaiting, botState,
          smText, smMax, smMessage, smChunks, smPc,
          today, chatID, updates, paInput, paText, paPositions, paAnalysis, paPc>>

pipelineVars ==
    <<runs, cronRunning, cronEntries, stopWaiting, botState, today, chatID, updates>>

splitVars == <<smText, smMax, smMessage, smChunks, smPc>>

parseVars == <<paInput, paText, paPositions, paAnalysis, paPc>>

----------------------------------------------------------------------------
(* Bounds of the model *)

\* longest text given to splitMessage in SplitSpec
MaxLen == 6

\* largest maxLength given to splitMessage in SplitSpec
MaxMax == 4

\* executions that may exist at the same time
MaxRuns == 2

\* cron entries the scheduler may hold
MaxEntries == 2

\* the chunk list of a splitMessage run that does not terminate is cut here
MaxChunks == MaxLen + 1

----------------------------------------------------------------------------
(* Bytes and string literals of the source *)

\* "\n"
NL == 10

\* "*"
STAR == 42

\* "_"
UNDERSCORE == 95

\* '📊 *PORTFOLIO ANALYSIS* 📊\n\n'  (32 bytes)
ReportHeader == <<240, 159, 147, 138, 32, 42, 80, 79, 82, 84, 70, 79, 76, 73, 79, 32, 65, 78, 65, 76, 89, 83, 73, 83, 42, 32, 240, 159, 147, 138, 10, 10>>

\* '*SUMMARY:*\n'  (11 bytes)
SummaryHeader == <<42, 83, 85, 77, 77, 65, 82, 89, 58, 42, 10>>

\* '*PORTFOLIO OVERVIEW:*\n'  (22 bytes)
OverviewHeader == <<42, 80, 79, 82, 84, 70, 79, 76, 73, 79, 32, 79, 86, 69, 82, 86, 73, 69, 87, 58, 42, 10>>

\* 'Total Value: '  (13 bytes)
TotalValueLabel == <<84, 111, 116, 97, 108, 32, 86, 97, 108, 117, 101, 58, 32>>

\* 'Expected Yield: '  (16 bytes)
ExpectedYieldLabel == <<69, 120, 112, 101, 99, 116, 101, 100, 32, 89, 105, 101, 108, 100, 58, 32>>

\* '*RECOMMENDATIONS:*\n\n'  (20 bytes)
RecommendationsHeader == <<42, 82, 69, 67, 79, 77, 77, 69, 78, 68, 65, 84, 73, 79, 78, 83, 58, 42, 10, 10>>

\* '🔄'  (4 bytes)
EmojiHold == <<240, 159, 148, 132>>

\* '🟢'  (4 bytes)
EmojiBuy == <<240, 159, 159, 162>>

\* '🔴'  (4 bytes)
EmojiSell == <<240, 159, 148, 180>>

\* '\n⚠️ *REMINDER* ⚠️\n'  (26 bytes)
ReminderHeader == <<10, 226, 154, 160, 239, 184, 143, 32, 42, 82, 69, 77, 73, 78, 68, 69, 82, 42, 32, 226, 154, 160, 239, 184, 143, 10>>

\* "Don't forget to add funds and redistribute your portfolio this month!\n"  (70 bytes)
ReminderBody == <<68, 111, 110, 39, 116, 32, 102, 111, 114, 103, 101, 116, 32, 116, 111, 32, 97, 100, 100, 32, 102, 117, 110, 100, 115, 32, 97, 110, 100, 32, 114, 101, 100, 105, 115, 116, 114, 105, 98, 117, 116, 101, 32, 121, 111, 117, 114, 32, 112, 111, 114, 116, 102, 111, 108, 105, 111, 32, 116, 104, 105, 115, 32, 109, 111, 110, 116, 104, 33, 10>>

\* 'Ошибка при получении портфеля: '  (57 bytes)
PortfolioErrPrefix == <<208, 158, 209, 136, 208, 184, 208, 177, 208, 186, 208, 176, 32, 208, 191, 209, 128, 208, 184, 32, 208, 191, 208, 190, 208, 187, 209, 131, 209, 135, 208, 181, 208, 189, 208, 184, 208, 184, 32, 208, 191, 208, 190, 209, 128, 209, 130, 209, 132, 208, 181, 208, 187, 209, 143, 58, 32>>

\* 'Ошибка при анализе портфеля: '  (53 bytes)
AnalyzeErrPrefix == <<208, 158, 209, 136, 208, 184, 208, 177, 208, 186, 208, 176, 32, 208, 191, 209, 128, 208, 184, 32, 208, 176, 208, 189, 208, 176, 208, 187, 208, 184, 208, 183, 208, 181, 32, 208, 191, 208, 190, 209, 128, 209, 130, 209, 132, 208, 181, 208, 187, 209, 143, 58, 32>>

\* 'Ошибка при отправке анализа: '  (53 bytes)
SendErrPrefix == <<208, 158, 209, 136, 208, 184, 208, 177, 208, 186, 208, 176, 32, 208, 191, 209, 128, 208, 184, 32, 208, 190, 209, 130, 208, 191, 209, 128, 208, 176, 208, 178, 208, 186, 208, 181, 32, 208, 176, 208, 189, 208, 176, 208, 187, 208, 184, 208, 183, 208, 176, 58, 32>>

\* 'failed to send portfolio analysis: '  (35 bytes)
SendFailedPrefix == <<102, 97, 105, 108, 101, 100, 32, 116, 111, 32, 115, 101, 110, 100, 32, 112, 111, 114, 116, 102, 111, 108, 105, 111, 32, 97, 110, 97, 108, 121, 115, 105, 115, 58, 32>>

\* 'Неизвестная команда. Используйте /help для списка доступных команд.'  (120 bytes)
UnknownCommandText == <<208, 157, 208, 181, 208, 184, 208, 183, 208, 178, 208, 181, 209, 129, 209, 130, 208, 189, 208, 176, 209, 143, 32, 208, 186, 208, 190, 208, 188, 208, 176, 208, 189, 208, 180, 208, 176, 46, 32, 208, 152, 209, 129, 208, 191, 208, 190, 208, 187, 209, 140, 208, 183, 209, 131, 208, 185, 209, 130, 208, 181, 32, 47, 104, 101, 108, 112, 32, 208, 180, 208, 187, 209, 143, 32, 209, 129, 208, 191, 208, 184, 209, 129, 208, 186, 208, 176, 32, 208, 180, 208, 190, 209, 129, 209, 130, 209, 131, 208, 191, 208, 189, 209, 139, 209, 133, 32, 208, 186, 208, 190, 208, 188, 208, 176, 208, 189, 208, 180, 46>>

\* '🔄 Запускаю анализ вашего портфеля...'  (67 bytes)
AnalyzeReplyText == <<240, 159, 148, 132, 32, 208, 151, 208, 176, 208, 191, 209, 131, 209, 129, 208, 186, 208, 176, 209, 142, 32, 208, 176, 208, 189, 208, 176, 208, 187, 208, 184, 208, 183, 32, 208, 178, 208, 176, 209, 136, 208, 181, 208, 179, 208, 190, 32, 208, 191, 208, 190, 209, 128, 209, 130, 209, 132, 208, 181, 208, 187, 209, 143, 46, 46, 46>>

\* '🤖 *Доступные команды*: ... (bot.go 163-169)'  (361 bytes)
HelpText == <<240, 159, 164, 150, 32, 42, 208, 148, 208, 190, 209, 129, 209, 130, 209, 131, 208, 191, 208, 189, 209, 139, 208, 181, 32, 208, 186, 208, 190, 208, 188, 208, 176, 208, 189, 208, 180, 209, 139, 42, 58, 10, 10, 47, 97, 110, 97, 108, 121, 122, 101, 32, 45, 32, 208, 183, 208, 176, 208, 191, 209, 131, 209, 129, 209, 130, 208, 184, 209, 130, 209, 140, 32, 208, 176, 208, 189, 208, 176, 208, 187, 208, 184, 208, 183, 32, 208, 191, 208, 190, 209, 128, 209, 130, 209, 132, 208, 181, 208, 187, 209, 143, 32, 208, 191, 209, 128, 209, 143, 208, 188, 208, 190, 32, 209, 129, 208, 181, 208, 185, 209, 135, 208, 176, 209, 129, 10, 47, 115, 116, 97, 116, 117, 115, 32, 45, 32, 208, 191, 209, 128, 208, 190, 208, 178, 208, 181, 209, 128, 208, 184, 209, 130, 209, 140, 32, 209, 129, 209, 130, 208, 176, 209, 130, 209, 131, 209, 129, 32, 208, 177, 208, 190, 209, 130, 208, 176, 10, 47, 104, 101, 108, 112, 32, 45, 32, 208, 191, 208, 190, 208, 186, 208, 176, 208, 183, 208, 176, 209, 130, 209, 140, 32, 209, 141, 209, 130, 208, 190, 32, 209, 129, 208, 190, 208, 190, 208, 177, 209, 137, 208, 181, 208, 189, 208, 184, 208, 181, 10, 10, 208, 145, 208, 190, 209, 130, 32, 209, 130, 208, 176, 208, 186, 208, 182, 208, 181, 32, 208, 176, 208, 178, 209, 130, 208, 190, 208, 188, 208, 176, 209, 130, 208, 184, 209, 135, 208, 181, 209, 129, 208, 186, 208, 184, 32, 208, 176, 208, 189, 208, 176, 208, 187, 208, 184, 208, 183, 208, 184, 209, 128, 209, 131, 208, 181, 209, 130, 32, 208, 178, 208, 176, 209, 136, 32, 208, 191, 208, 190, 209, 128, 209, 130, 209, 132, 208, 181, 208, 187, 209, 140, 32, 208, 186, 208, 176, 208, 182, 208, 180, 209, 139, 208, 185, 32, 208, 180, 208, 181, 208, 189, 209, 140, 32, 208, 178, 32, 55, 58, 48, 48, 32, 40, 208, 156, 208, 161, 208, 154, 41, 46>>

\* '✅ Бот работает нормально. Ежедневный анализ портфеля выполняется в 7:00 (МСК).'  (139 bytes)
StatusText == <<226, 156, 133, 32, 208, 145, 208, 190, 209, 130, 32, 209, 128, 208, 176, 208, 177, 208, 190, 209, 130, 208, 176, 208, 181, 209, 130, 32, 208, 189, 208, 190, 209, 128, 208, 188, 208, 176, 208, 187, 209, 140, 208, 189, 208, 190, 46, 32, 208, 149, 208, 182, 208, 181, 208, 180, 208, 189, 208, 181, 208, 178, 208, 189, 209, 139, 208, 185, 32, 208, 176, 208, 189, 208, 176, 208, 187, 208, 184, 208, 183, 32, 208, 191, 208, 190, 209, 128, 209, 130, 209, 132, 208, 181, 208, 187, 209, 143, 32, 208, 178, 209, 139, 208, 191, 208, 190, 208, 187, 208, 189, 209, 143, 208, 181, 209, 130, 209, 129, 209, 143, 32, 208, 178, 32, 55, 58, 48, 48, 32, 40, 208, 156, 208, 161, 208, 154, 41, 46>>

\* 'BUY'
BUY == <<66, 85, 89>>

\* 'SELL'
SELL == <<83, 69, 76, 76>>

\* 'HOLD'
HOLD == <<72, 79, 76, 68>>

\* 'RUB'
RUB == <<82, 85, 66>>

\* the smallest element of a non-empty set of numbers
Min(S) == CHOOSE x \in S : \A y \in S : x <= y

----------------------------------------------------------------------------
(* String helpers of the Go standard library, as the source uses them *)

Max(S) == CHOOSE x \in S : \A y \in S : y <= x

\* string(s[lo:hi]) with Go's 0-based, half-open bounds
Slice(s, lo, hi) == SubSeq(s, lo + 1, hi)

\* strings.LastIndex(s, c) for a one-byte c: 0-based index of the last c, -1 if none
LastIndex(s, c) ==
    LET I == {i \in 1..Len(s) : s[i] = c}
    IN IF I = {} THEN -1 ELSE Max(I) - 1

\* strings.ReplaceAll(s, c, "") for a one-byte c
ReplaceAllEmpty(s, c) == SelectSeq(s, LAMBDA b : b # c)

RECURSIVE Join(_)
\* concatenation of a sequence of strings, in order
Join(ss) == IF ss = <<>> THEN <<>> ELSE Head(ss) \o Join(Tail(ss))

----------------------------------------------------------------------------
(* splitMessage (bot.go) *)

SplitFitsOffByOne(message, maxLength) == Len(message) < maxLength

\* len(message) <= maxLength, the test of lines 284 and 290
SplitFits(message, maxLength) == Len(message) <= maxLength

\* a variant of CutIndex that cuts at every newline of the window
CutIndexAnyNewline(message, maxLength) ==
    LET cutIndex == LastIndex(Slice(message, 0, maxLength), NL)
    IN IF cutIndex = -1 THEN maxLength ELSE cutIndex

CutIndexStrictHalf(message, maxLength) ==
    LET cutIndex == LastIndex(Slice(message, 0, maxLength), NL)
    IN IF cutIndex = -1 \/ cutIndex <= maxLength \div 2 THEN maxLength ELSE cutIndex

\* lines 296-300: the cut position of one loop iteration (len(message) > maxLength)
CutIndex(message, maxLength) ==
    LET cutIndex == LastIndex(Slice(message, 0, maxLength), NL)
    IN IF cutIndex = -1 \/ cutIndex < maxLength \div 2 THEN maxLength ELSE cutIndex

SplitRestSkipsNewline(message, cutIndex) ==
    IF cutIndex < Len(message) /\ message[cutIndex + 1] = NL
    THEN Slice(message, cutIndex + 1, Len(message))
    ELSE Slice(message, cutIndex, Len(message))

\* line 303: message[cutIndex:]
SplitRest(message, cutIndex) == Slice(message, cutIndex, Len(message))

\* line 302: message[:cutIndex]
SplitChunk(message, cutIndex) == Slice(message, 0, cutIndex)

RECURSIVE SplitLoopFrom(_, _, _)
\* lines 289-304, run to the end; used where the loop terminates (CutIndex > 0)
SplitLoopFrom(message, maxLength, chunks) ==
    IF Len(message) = 0 THEN chunks
    ELSE IF SplitFits(message, maxLength) THEN Append(chunks, message)
    ELSE LET cutIndex == CutIndex(message, maxLength)
         IN SplitLoopFrom(SplitRest(message, cutIndex), maxLength,
                          Append(chunks, SplitChunk(message, cutIndex)))

\* splitMessage as a function of its arguments
splitMessage(message, maxLength) ==
    IF SplitFits(message, maxLength) THEN <<message>>
    ELSE SplitLoopFrom(message, maxLength, <<>>)

StripOnlyStars(text) == ReplaceAllEmpty(text, STAR)

\* stripMarkdown (bot.go)
stripMarkdown(text) == ReplaceAllEmpty(ReplaceAllEmpty(text, STAR), UNDERSCORE)

----------------------------------------------------------------------------
(* SendPortfolioAnalysis: the report text (bot.go) *)

\* const maxMessageLength of sendMessage
maxMessageLength == 4096

\* '🤖 Invest Manager Bot started successfully.'  (45 bytes)
StartupText == <<240, 159, 164, 150, 32, 73, 110, 118, 101, 115, 116, 32, 77, 97, 110, 97, 103, 101, 114, 32, 66, 111, 116, 32, 115, 116, 97, 114, 116, 101, 100, 32, 115, 117, 99, 99, 101, 115, 115, 102, 117, 108, 108, 121, 46>>

RECURSIVE Decimal(_)
\* the decimal digits of a natural number
Decimal(n) == IF n < 10 THEN <<48 + n>> ELSE Decimal(n \div 10) \o <<48 + (n % 10)>>

\* fmt.Sprintf("%.2f", x) of an amount held in hundredths
Fmt2f(x) ==
    LET a == IF x < 0 THEN 0 - x ELSE x
    IN (IF x < 0 THEN <<45>> ELSE <<>>)
       \o Decimal(a \div 100) \o <<46, 48 + ((a \div 10) % 10), 48 + (a % 10)>>

\* lines 240-245: the emoji of an action
ActionEmoji(action) ==
    IF action = BUY THEN EmojiBuy
    ELSE IF action = SELL THEN EmojiSell
    ELSE EmojiHold

\* lines 247-248: "*%s (%s)* - %s %s\n" and "_%s_\n\n"
FormatRecommendation(rec) ==
    <<STAR>> \o rec.Ticker \o <<32, 40>> \o rec.Name \o <<41, STAR, 32, 45, 32>>
    \o ActionEmoji(rec.Action) \o <<32>> \o rec.Action \o <<NL>>
    \o <<UNDERSCORE>> \o rec.Reason \o <<UNDERSCORE, NL, NL>>

RECURSIVE FormatRecommendations(_)
\* lines 238-249: the loop over analysis.Recommendations
FormatRecommendations(recs) ==
    IF recs = <<>> THEN <<>>
    ELSE FormatRecommendation(Head(recs)) \o FormatRecommendations(Tail(recs))

\* lines 220-255: sb.String()
FormatReport(portfolio, analysis) ==
    ReportHeader
    \o SummaryHeader \o analysis.Summary \o <<NL, NL>>
    \o OverviewHeader
    \o TotalValueLabel \o Fmt2f(portfolio.TotalAmount) \o <<32>> \o portfolio.Currency \o <<NL>>
    \o ExpectedYieldLabel \o Fmt2f(portfolio.ExpectedYield) \o <<32>> \o portfolio.Currency \o <<NL, NL>>
    \o RecommendationsHeader
    \o FormatRecommendations(analysis.Recommendations)
    \o (IF analysis.IsMonthlyReminder THEN ReminderHeader \o ReminderBody ELSE <<>>)

----------------------------------------------------------------------------
(* Chat ids (bot.go): the configured chat is a string, a chat of Telegram an
   int64 *)

\* fmt.Sprintf("%d", n), line 84
FormatChatID(n) == IF n < 0 THEN <<45>> \o Decimal(0 - n) ELSE Decimal(n)

\* the bytes '0'..'9'
IsDigit(b) == b >= 48 /\ b <= 57

RECURSIVE DigitsValue(_, _)
\* the number written by the leading digits of s, after the digits read as acc
DigitsValue(s, acc) ==
    IF s = <<>> \/ ~IsDigit(Head(s)) THEN acc
    ELSE DigitsValue(Tail(s), acc * 10 + (Head(s) - 48))

\* parseChatID, lines 276-280: fmt.Sscanf(chatID, "%d", &id) reads an optional
\* sign and the digits that follow, and leaves id = 0 when there is no digit
parseChatID(s) ==
    LET signed == s # <<>> /\ Head(s) \in {43, 45}
        digits == IF signed THEN Tail(s) ELSE s
    IN IF digits = <<>> \/ ~IsDigit(Head(digits)) THEN 0
       ELSE IF signed /\ Head(s) = 45 THEN 0 - DigitsValue(digits, 0)
       ELSE DigitsValue(digits, 0)

\* TELEGRAM_CHAT_ID of the pipeline specification: '7'
ConfiguredChatID == <<55>>

\* configurations of TELEGRAM_CHAT_ID: '7', '-7', '07', '7x', 'x'
ChatIDConfigs == { <<55>>, <<45, 55>>, <<48, 55>>, <<55, 120>>, <<120>> }

\* chats that write to the bot
ChatIDs == {7, 0 - 7, 8, 0}

\* lines 84-85: the update is processed only if its chat, printed, is b.chatID
AuthorizedChat(chat) == FormatChatID(chat) = chatID

----------------------------------------------------------------------------
(* Values the collaborators may return *)

\* the holding of the demo portfolio: SBER, 10 x 285.30, yield 148.00 (hundredths)
PositionSBER ==
    [Ticker |-> <<83, 66, 69, 82>>,
     Name |-> <<208, 161, 208, 177, 208, 181, 209, 128, 208, 177, 208, 176, 208, 189, 208, 186>>,
     ExpectedYield |-> 14800]

DemoPortfolio ==
    [Positions |-> <<PositionSBER>>, TotalAmount |-> 285300,
     ExpectedYield |-> 14800, Currency |-> RUB]

\* portfolios GetPortfolio returns in the pipeline specification
Portfolios == { DemoPortfolio }

\* article lists FetchNews returns when it succeeds
ArticleLists == { <<"article">> }

\* 'Strong_*': a rationale holding both emphasis delimiters
ShortReason == <<83, 116, 114, 111, 110, 103, UNDERSCORE, STAR>>

\* a rationale longer than one Telegram payload
LongReason == [i \in 1..(maxMessageLength + 1) |-> 120]

RecommendationSBER(action, reason) ==
    [Ticker |-> PositionSBER.Ticker, Name |-> PositionSBER.Name,
     Action |-> action, Reason |-> reason]

\* 'All good.'
ShortSummary == <<65, 108, 108, 32, 103, 111, 111, 100, 46>>

\* results of parseAnalysisResponse (before IsMonthlyReminder is set) in the
\* pipeline specification
ParsedAnalyses ==
    { [Summary |-> ShortSummary,
       Recommendations |-> <<RecommendationSBER(BUY, ShortReason)>>] }

\* 'timeout'
ShortError == <<116, 105, 109, 101, 111, 117, 116>>

\* an error text longer than a payload, with a newline in its second half
LongError == [i \in 1..maxMessageLength |-> IF i = maxMessageLength - 100 THEN NL ELSE 101]

\* error texts of the collaborators in the pipeline specification
ErrorTexts == { ShortError }

----------------------------------------------------------------------------
(* Executions: one record per goroutine running the workflow, or per call of
   SendPortfolioAnalysis or sendMessage *)

\* the cron job, Scheduler.RunNow and the /analyze goroutine
PipelineKinds == {"scheduled", "runnow", "manual"}

\* the kinds that execute Scheduler.runPortfolioAnalysis
SchedulerKinds == {"scheduled", "runnow"}

\* a run at the call of its first collaborator, GetPortfolio
NewRun(kind, flag) ==
    [kind |-> kind, flag |-> flag, pc |-> "GetPortfolio", calls |-> <<"GetPortfolio">>,
     portfolio |-> <<>>, articles |-> <<>>, newsFailed |-> FALSE,
     prompt |-> <<>>, advisory |-> "", analysis |-> <<>>,
     sends |-> <<>>, queue |-> <<>>, result |-> "", deadlineAt |-> 0 - 1]

\* a tgbotapi message handed to api.Send, its outcome not yet known
Outgoing(what, text, markdown) ==
    [what |-> what, text |-> text, markdown |-> markdown, outcome |-> "pending",
     to |-> parseChatID(chatID)]

\* a message of a command handler, tgbotapi.NewMessage(message.Chat.ID, text),
\* given to api.Send whose result the handler drops (lines 115-116, 171-173,
\* 180-181)
Reply(text, chat, markdown) ==
    [what |-> "reply", text |-> text, markdown |-> markdown, outcome |-> "unchecked",
     to |-> chat]

\* the last entry of r.sends gets the outcome of api.Send
WithOutcome(r, accepted) ==
    [r EXCEPT !.sends[Len(r.sends)].outcome = IF accepted THEN "accepted" ELSE "rejected"]

\* the records in the bag, and the replacement of one of them
Live == BagToSet(runs)

Replace(r, r2) == (runs (-) SetToBag({r})) (+) SetToBag({r2})

\* the deadline of the run's context has passed; deadlineAt is the number of
\* collaborator calls the run had made by then
Expired(r) == r.deadlineAt >= 0

\* pipeline executions that have not returned yet
InFlight == {r \in Live : r.kind \in PipelineKinds /\ r.pc # "done"}

NumInFlight == BagCardinality([r \in InFlight |-> runs[r]])

\* sendMessage, lines 194-213: the payloads it hands to api.Send, in order
SendMessageChunks(text) ==
    IF Len(text) <= maxMessageLength THEN <<text>>
    ELSE splitMessage(text, maxMessageLength)

\* sendMessage(text) is entered: its first payload is handed to api.Send
EnterSendMessage(r, text) ==
    LET chunks == SendMessageChunks(text)
    IN [r EXCEPT !.pc = "SendNotice",
                 !.calls = Append(@, "sendMessage"),
                 !.sends = Append(@, Outgoing("notice", Head(chunks), FALSE)),
                 !.queue = Tail(chunks)]

\* the execution returns (its goroutine ends) with this result
Finish(r, result) == [r EXCEPT !.pc = "done", !.result = result]

\* a fatal step failed: runPortfolioAnalysis returns the wrapped error
\* (scheduler.go 113-115, 128-130, 134-136); the /analyze goroutine reports it
\* with sendMessage and returns (bot.go 126-131, 144-149, 154-157)
FailedStep(r, result, prefix, err) ==
    IF r.kind = "manual"
    THEN EnterSendMessage([r EXCEPT !.result = result], prefix \o err)
    ELSE Finish(r, result)

----------------------------------------------------------------------------
(* Steps of an execution: each is the return of the collaborator call in
   flight, followed by the code up to the next collaborator call *)

\* analyzer lines 79-84: userPrompt, as the sentences it is made of, the
\* request to answer in Russian left out; the portfolio and the news are
\* formatted into the first two
UserPrompt(isMonthlyReminder) ==
    <<"Here is the current portfolio information:",
      "Recent news about Russia:",
      "Please provide investment recommendations for each position in the portfolio, and suggest trading opportunities (LONG/SHORT) for other relevant stocks.">>
    \o (IF isMonthlyReminder
        THEN <<"This is a monthly review. Please also include a reminder to add funds and redistribute the portfolio.">>
        ELSE <<>>)

\* a variant of AfterGetPortfolio that goes on to the advisory without the news
PortfolioThenAdvisory(r, ok, p, err) ==
    IF ok
    THEN [r EXCEPT !.portfolio = <<p>>,
                   !.prompt = UserPrompt(r.flag),
                   !.pc = "AnalyzePortfolio",
                   !.calls = Append(@, "AnalyzePortfolio")]
    ELSE FailedStep(r, "failed to get portfolio", PortfolioErrPrefix, err)

PortfolioFailureContinues(r, ok, p, err) ==
    [r EXCEPT !.portfolio = IF ok THEN <<p>> ELSE <<>>,
              !.pc = "FetchNews",
              !.calls = Append(@, "FetchNews")]

\* scheduler.go 112-119, bot.go 125-135
AfterGetPortfolio(r, ok, p, err) ==
    IF ok
    THEN [r EXCEPT !.portfolio = <<p>>,
                   !.pc = "FetchNews",
                   !.calls = Append(@, "FetchNews")]
    ELSE FailedStep(r, "failed to get portfolio", PortfolioErrPrefix, err)

GetPortfolioReturns(r) ==
    /\ r.pc = "GetPortfolio"
    /\ \E ok \in BOOLEAN, p \in Portfolios, err \in ErrorTexts :
         runs' = Replace(r, AfterGetPortfolio(r, ok, p, err))
    /\ UNCHANGED <<cronRunning, cronEntries, stopWaiting, botState, today, chatID, updates, splitVars, parseVars>>

NewsFailureAborts(r, ok, fetched) ==
    IF ok
    THEN [r EXCEPT !.articles = fetched,
                   !.prompt = UserPrompt(r.flag),
                   !.pc = "AnalyzePortfolio",
                   !.calls = Append(@, "AnalyzePortfolio")]
    ELSE Finish([r EXCEPT !.newsFailed = TRUE], "failed to fetch news")

\* scheduler.go 119-127, bot.go 135-143: a failed fetch is logged and replaced by
\* an empty article list; AnalyzePortfolio is called with r.articles and
\* builds its request
AfterFetchNews(r, ok, fetched) ==
    [r EXCEPT !.articles = IF ok THEN fetched ELSE <<>>,
              !.newsFailed = ~ok,
              !.prompt = UserPrompt(r.flag),
              !.pc = "AnalyzePortfolio",
              !.calls = Append(@, "AnalyzePortfolio")]

FetchNewsReturns(r) ==
    /\ r.pc = "FetchNews"
    /\ \E ok \in BOOLEAN, fetched \in ArticleLists :
         runs' = Replace(r, AfterFetchNews(r, ok, fetched))
    /\ UNCHANGED <<cronRunning, cronEntries, stopWaiting, botState, today, chatID, updates, splitVars, parseVars>>

\* SendPortfolioAnalysis is entered (bot.go 219-261): the report is built and
\* handed to api.Send with ParseMode markdown
EnterSendPortfolioAnalysis(r) ==
    [r EXCEPT !.pc = "SendMarkdown",
              !.calls = Append(@, "SendPortfolioAnalysis"),
              !.sends = Append(@, Outgoing("report",
                                   FormatReport(r.portfolio[1], r.analysis[1]), TRUE))]

\* a variant of AnalysisOf that leaves IsMonthlyReminder at its zero value
AnalysisOfNoReminder(parsed, isMonthlyReminder) ==
    [Summary |-> parsed.Summary, Recommendations |-> parsed.Recommendations,
     IsMonthlyReminder |-> FALSE]

\* analyzer lines 111-122: the parsed response with IsMonthlyReminder set to the
\* flag given to AnalyzePortfolio
AnalysisOf(parsed, isMonthlyReminder) ==
    [Summary |-> parsed.Summary, Recommendations |-> parsed.Recommendations,
     IsMonthlyReminder |-> isMonthlyReminder]

AnalysisFailureIgnored(r, outcome, parsed, err) ==
    EnterSendPortfolioAnalysis(
        [r EXCEPT !.advisory = outcome, !.analysis = <<AnalysisOf(parsed, r.flag)>>])

\* AnalyzePortfolio returns (outcome "ok": analyzer lines 111-122; "error": the
\* API call failed, 102-105; "nochoices": 107-109), then scheduler.go 128-134 or
\* bot.go 144-153
AfterAnalyzePortfolio(r, outcome, parsed, err) ==
    IF outcome = "ok"
    THEN EnterSendPortfolioAnalysis(
             [r EXCEPT !.advisory = outcome, !.analysis = <<AnalysisOf(parsed, r.flag)>>])
    ELSE FailedStep([r EXCEPT !.advisory = outcome],
                    "failed to analyze portfolio", AnalyzeErrPrefix, err)

\* what CreateChatCompletion(ctx, request) can do (analyzer line 102): with the
\* deadline of ctx passed the call returns the context's error
AdvisoryOutcomes(r) ==
    IF Expired(r) THEN {"error"} ELSE {"ok", "error", "nochoices"}

AnalyzePortfolioReturns(r) ==
    /\ r.pc = "AnalyzePortfolio"
    /\ \E outcome \in AdvisoryOutcomes(r), parsed \in ParsedAnalyses,
          err \in ErrorTexts :
         runs' = Replace(r, AfterAnalyzePortfolio(r, outcome, parsed, err))
    /\ UNCHANGED <<cronRunning, cronEntries, stopWaiting, botState, today, chatID, updates, splitVars, parseVars>>

PlainAlsoAfterSuccess(r, accepted) ==
    [WithOutcome(r, accepted) EXCEPT
        !.pc = "SendPlain",
        !.sends = Append(@, Outgoing("report",
                             stripMarkdown(r.sends[Len(r.sends)].text), FALSE))]

\* api.Send of the markdown report returns (bot.go 261-266): on an error the
\* same sb.String() is stripped and handed to api.Send without a parse mode
AfterSendMarkdown(r, accepted) ==
    LET r1 == WithOutcome(r, accepted)
    IN IF accepted
       THEN Finish(r1, "ok")
       ELSE [r1 EXCEPT !.pc = "SendPlain",
                       !.sends = Append(@, Outgoing("report",
                                   stripMarkdown(r.sends[Len(r.sends)].text), FALSE))]

SendMarkdownReturns(r) ==
    /\ r.pc = "SendMarkdown"
    /\ \E accepted \in BOOLEAN :
         runs' = Replace(r, AfterSendMarkdown(r, accepted))
    /\ UNCHANGED <<cronRunning, cronEntries, stopWaiting, botState, today, chatID, updates, splitVars, parseVars>>

\* api.Send of the plain report returns (bot.go 266-272), then scheduler.go
\* 134-139 or bot.go 154-157
AfterSendPlain(r, accepted, err) ==
    LET r1 == WithOutcome(r, accepted)
    IN IF accepted
       THEN Finish(r1, "ok")
       ELSE FailedStep(r1, "failed to send analysis to Telegram",
                       SendErrPrefix, SendFailedPrefix \o err)

SendPlainReturns(r) ==
    /\ r.pc = "SendPlain"
    /\ \E accepted \in BOOLEAN, err \in ErrorTexts :
         runs' = Replace(r, AfterSendPlain(r, accepted, err))
    /\ UNCHANGED <<cronRunning, cronEntries, stopWaiting, botState, today, chatID, updates, splitVars, parseVars>>

\* the number of the payload of sendMessage whose api.Send is in flight, and
\* whether the text was split: the payloads of one sendMessage are the last
\* notices of r.sends, and a split text has two chunks or more
NoticePart(r) ==
    Cardinality({k \in 1..Len(r.sends) :
                   \A j \in k..Len(r.sends) : r.sends[j].what = "notice"})

NoticeSplit(r) == NoticePart(r) + Len(r.queue) > 1

\* the error of sendMessage, lines 198-200 and 209-211 (i+1 of the range loop)
SendMessageError(r) ==
    IF NoticeSplit(r)
    THEN "failed to send Telegram message part " \o ToString(NoticePart(r))
    ELSE "failed to send Telegram message"

\* a variant of AfterSendNotice that goes on to the next chunk after a
\* rejected one
AfterSendNoticeKeepsSending(r, accepted) ==
    LET r1 == WithOutcome(r, accepted)
    IN IF r.queue # <<>>
       THEN [r1 EXCEPT !.sends = Append(@, Outgoing("notice", Head(r.queue), FALSE)),
                       !.queue = Tail(@)]
       ELSE Finish(r1, IF r.kind = "manual" THEN r.result
                       ELSE IF accepted THEN "ok"
                       ELSE SendMessageError(r))

\* api.Send of one payload of sendMessage returns (bot.go 197-200, 208-211): an
\* error ends sendMessage, otherwise the next chunk, if any, is sent
AfterSendNotice(r, accepted) ==
    LET r1 == WithOutcome(r, accepted)
    IN IF accepted /\ r.queue # <<>>
       THEN [r1 EXCEPT !.sends = Append(@, Outgoing("notice", Head(r.queue), FALSE)),
                       !.queue = Tail(@)]
       ELSE Finish(r1, IF r.kind = "manual" THEN r.result
                       ELSE IF accepted THEN "ok"
                       ELSE SendMessageError(r))

SendNoticeReturns(r) ==
    /\ r.pc = "SendNotice"
    /\ \E accepted \in BOOLEAN :
         runs' = Replace(r, AfterSendNotice(r, accepted))
    /\ UNCHANGED <<cronRunning, cronEntries, stopWaiting, botState, today, chatID, updates, splitVars, parseVars>>

\* the deadline of the run's ctx passes (scheduler.go 107: 2 minutes; bot.go
\* 120: 60 seconds) while a collaborator call is in flight; nothing in the run
\* waits on ctx.Done(), only collaborators given ctx can notice
DeadlineExpires(r) ==
    /\ r.kind \in PipelineKinds
    /\ r.pc # "done"
    /\ ~Expired(r)
    /\ runs' = Replace(r, [r EXCEPT !.deadlineAt = Len(r.calls)])
    /\ UNCHANGED <<cronRunning, cronEntries, stopWaiting, botState, today, chatID, updates, splitVars, parseVars>>

\* the goroutine of a finished execution is gone
Retire(r) ==
    /\ r.pc = "done"
    /\ runs' = runs (-) SetToBag({r})
    /\ UNCHANGED <<cronRunning, cronEntries, stopWaiting, botState, today, chatID, updates, splitVars, parseVars>>

----------------------------------------------------------------------------
(* Scheduler (scheduler.go) *)

\* now.Day() == 5
ReminderDay == 5

\* the days of the month the clock shows in the model: the 5th and another day
DaysOfMonth == {ReminderDay, ReminderDay + 1}

\* midnight in s.timezone
DayPasses ==
    /\ today' \in DaysOfMonth \ {today}
    /\ UNCHANGED <<runs, cronRunning, cronEntries, stopWaiting, botState, chatID, updates, splitVars, parseVars>>

\* Scheduler.Start, lines 66-89: AddFunc registers one more entry, cron.Start
SchedulerStart ==
    /\ cronEntries < MaxEntries
    /\ cronEntries' = cronEntries + 1
    /\ cronRunning' = TRUE
    /\ UNCHANGED <<runs, stopWaiting, botState, today, chatID, updates, splitVars, parseVars>>

\* Scheduler.Stop, line 93: cron.Stop() ends the timer loop
SchedulerStop ==
    /\ ~stopWaiting
    /\ cronRunning' = FALSE
    /\ stopWaiting' = TRUE
    /\ UNCHANGED <<runs, cronEntries, botState, today, chatID, updates, splitVars, parseVars>>

\* a variant of SchedulerStopReturns that does not wait for the running jobs
SchedulerStopReturnsAtOnce ==
    /\ stopWaiting
    /\ stopWaiting' = FALSE
    /\ UNCHANGED <<runs, cronRunning, cronEntries, botState, today, chatID, updates, splitVars, parseVars>>

\* Scheduler.Stop, line 94: <-ctx.Done() returns when no cron job is running
SchedulerStopReturns ==
    /\ stopWaiting
    /\ \A r \in Live : r.kind = "scheduled" => r.pc = "done"
    /\ stopWaiting' = FALSE
    /\ UNCHANGED <<runs, cronRunning, cronEntries, botState, today, chatID, updates, splitVars, parseVars>>

\* a variant of CronFire that skips the firing after a scheduled execution
\* that returned an error
CronFireUnlessFailed ==
    /\ cronRunning
    /\ cronEntries > 0
    /\ BagCardinality(runs) + cronEntries <= MaxRuns
    /\ \A r \in Live : r.kind = "scheduled" /\ r.pc = "done" => r.result = "ok"
    /\ runs' = runs (+) (NewRun("scheduled", today = ReminderDay) :> cronEntries)
    /\ UNCHANGED <<cronRunning, cronEntries, stopWaiting, botState, today, chatID, updates, splitVars, parseVars>>

\* a variant of CronFire with the reminder on the day after the 5th
CronFireReminderDayAfter ==
    /\ cronRunning
    /\ cronEntries > 0
    /\ BagCardinality(runs) + cronEntries <= MaxRuns
    /\ runs' = runs (+) (NewRun("scheduled", today = ReminderDay + 1) :> cronEntries)
    /\ UNCHANGED <<cronRunning, cronEntries, stopWaiting, botState, today, chatID, updates, splitVars, parseVars>>

\* 07:00 of some day: cron starts every entry's func in a goroutine of its own;
\* lines 68-79 derive the flag from the day of the month and call
\* runPortfolioAnalysis
CronFire ==
    /\ cronRunning
    /\ cronEntries > 0
    /\ BagCardinality(runs) + cronEntries <= MaxRuns
    /\ runs' = runs (+) (NewRun("scheduled", today = ReminderDay) :> cronEntries)
    /\ UNCHANGED <<cronRunning, cronEntries, stopWaiting, botState, today, chatID, updates, splitVars, parseVars>>

\* a variant of RunNow that starts the cron as Start does
RunNowStartsCron ==
    /\ BagCardinality(runs) < MaxRuns
    /\ \E isMonthlyReminder \in BOOLEAN :
         runs' = runs (+) SetToBag({NewRun("runnow", isMonthlyReminder)})
    /\ cronRunning' = TRUE
    /\ UNCHANGED <<cronEntries, stopWaiting, botState, today, chatID, updates, splitVars, parseVars>>

\* Scheduler.RunNow, lines 99-102
RunNow ==
    /\ BagCardinality(runs) < MaxRuns
    /\ \E isMonthlyReminder \in BOOLEAN :
         runs' = runs (+) SetToBag({NewRun("runnow", isMonthlyReminder)})
    /\ UNCHANGED <<cronRunning, cronEntries, stopWaiting, botState, today, chatID, updates, splitVars, parseVars>>

----------------------------------------------------------------------------
(* Bot (bot.go) *)

\* Bot.Start, lines 50-60
BotStart ==
    /\ botState = "new"
    /\ botState' = "listening"
    /\ UNCHANGED <<runs, cronRunning, cronEntries, stopWaiting, today, chatID, updates, splitVars, parseVars>>

\* handleUpdates is busy in a handler: the sendMessage of line 109 has not
\* returned
HandlerBusy == \E r \in Live : r.kind = "command" /\ r.pc # "done"

\* a variant of BotStop that returns while handleUpdates is inside a handler
BotStopAtOnce ==
    /\ botState = "listening"
    /\ botState' = "stopped"
    /\ UNCHANGED <<runs, cronRunning, cronEntries, stopWaiting, today, chatID, updates, splitVars, parseVars>>

\* Bot.Stop returns, lines 63-68: stopChan is closed and wg.Wait has returned,
\* which it does when handleUpdates, the one goroutine counted by wg (line
\* 57), has returned from the handler it was in and left its loop (lines 72,
\* 75-76); the goroutines of handleAnalyzeCommand (line 119) are not counted
BotStop ==
    /\ botState = "listening"
    /\ ~HandlerBusy
    /\ botState' = "stopped"
    /\ UNCHANGED <<runs, cronRunning, cronEntries, stopWaiting, today, chatID, updates, splitVars, parseVars>>

\* handleUpdates, lines 78-93, and handleAnalyzeCommand, lines 114-159: an
\* /analyze command of the configured chat starts the workflow in a goroutine of
\* its own, its flag the constant false of line 143
ManualRun(chat) ==
    [NewRun("manual", FALSE) EXCEPT !.sends = <<Reply(AnalyzeReplyText, chat, FALSE)>>]

\* an execution of a command handler other than /analyze, which has handed
\* this message to api.Send
CommandRun(message) ==
    [NewRun("command", FALSE) EXCEPT !.pc = "done", !.calls = <<>>, !.sends = <<message>>]

HandleAnalyzeCommand ==
    /\ botState = "listening"
    /\ ~HandlerBusy
    /\ BagCardinality(runs) < MaxRuns
    /\ \E chat \in ChatIDs :
         /\ AuthorizedChat(chat)
         /\ runs' = runs (+) SetToBag({ManualRun(chat)})
    /\ UNCHANGED <<cronRunning, cronEntries, stopWaiting, botState, today, chatID, updates, splitVars, parseVars>>

----------------------------------------------------------------------------
(* The pipeline specification *)

\* what an update of the long poll holds: no message, a text that is no
\* command, or a command
UpdateKinds == {"nomessage", "text", "analyze", "help", "status", "start"}

\* the updates the long poll may deliver: update.Message.Chat.ID and what the
\* message is; an update with no message has no chat
Updates ==
    [chat : ChatIDs, kind : UpdateKinds \ {"nomessage"}, handled : {FALSE}]
        \cup {[chat |-> 0, kind |-> "nomessage", handled |-> FALSE]}

\* the most updates the long poll delivers
MaxUpdates == 2

\* the long poll puts an update into the updates channel (bot.go 54-56)
UpdateArrives ==
    /\ botState = "listening"
    /\ Len(updates) < MaxUpdates
    /\ \E u \in Updates : updates' = Append(updates, u)
    /\ UNCHANGED <<runs, cronRunning, cronEntries, stopWaiting, botState, today, chatID, splitVars, parseVars>>

\* the updates of the channel not yet received by handleUpdates
Waiting == { k \in 1..Len(updates) : ~updates[k].handled }

\* a variant of Admitted that lets every chat in
AdmittedAnyChat(u) == u.kind \notin {"nomessage", "text"}

\* lines 80-93: the update reaches handleCommand
Admitted(u) ==
    u.kind \notin {"nomessage", "text"} /\ AuthorizedChat(u.chat)

\* a variant of HandleUpdate that receives no update while an execution
\* started by /analyze is running
HandleUpdateAfterManualRun ==
    /\ \A r \in Live : r.kind = "manual" => r.pc = "done"
    /\ botState = "listening"
    /\ ~HandlerBusy
    /\ Waiting # {}
    /\ BagCardinality(runs) < MaxRuns
    /\ LET k == Min(Waiting)
           u == updates[k]
       IN  /\ updates' = [updates EXCEPT ![k].handled = TRUE]
           /\ IF ~Admitted(u)
              THEN UNCHANGED runs
              ELSE runs' = runs (+) SetToBag({
                       CASE u.kind = "analyze" -> ManualRun(u.chat)
                         [] u.kind = "help" -> CommandRun(Reply(HelpText, u.chat, TRUE))
                         [] u.kind = "status" -> CommandRun(Reply(StatusText, u.chat, FALSE))
                         [] OTHER -> EnterSendMessage(
                                         [NewRun("command", FALSE) EXCEPT !.calls = <<>>],
                                         UnknownCommandText) })
    /\ UNCHANGED <<cronRunning, cronEntries, stopWaiting, botState, today, chatID, splitVars, parseVars>>

\* handleUpdates, lines 78-93, with handleCommand, lines 99-111, and the
\* handlers: the next update of the channel is received and handled
HandleUpdate ==
    /\ botState = "listening"
    /\ ~HandlerBusy
    /\ Waiting # {}
    /\ BagCardinality(runs) < MaxRuns
    /\ LET k == Min(Waiting)
           u == updates[k]
       IN  /\ updates' = [updates EXCEPT ![k].handled = TRUE]
           /\ IF ~Admitted(u)
              THEN UNCHANGED runs
              ELSE runs' = runs (+) SetToBag({
                       CASE u.kind = "analyze" -> ManualRun(u.chat)
                         [] u.kind = "help" -> CommandRun(Reply(HelpText, u.chat, TRUE))
                         [] u.kind = "status" -> CommandRun(Reply(StatusText, u.chat, FALSE))
                         [] OTHER -> EnterSendMessage(
                                         [NewRun("command", FALSE) EXCEPT !.calls = <<>>],
                                         UnknownCommandText) })
    /\ UNCHANGED <<cronRunning, cronEntries, stopWaiting, botState, today, chatID, splitVars, parseVars>>

SplitOff ==
    /\ smText = <<>>
    /\ smMax = 0
    /\ smMessage = <<>>
    /\ smChunks = <<>>
    /\ smPc = "off"

ParseOff ==
    /\ paInput = <<>>
    /\ paText = <<>>
    /\ paPositions = <<>>
    /\ paAnalysis = <<>>
    /\ paPc = "off"

SchedulerAndBotNew ==
    /\ cronRunning = FALSE
    /\ cronEntries = 0
    /\ stopWaiting = FALSE
    /\ botState = "new"
    /\ chatID = ConfiguredChatID
    /\ updates = <<>>

\* the clock is not read
ClockOff == today = ReminderDay

Init ==
    /\ runs = EmptyBag
    /\ SchedulerAndBotNew
    /\ today \in DaysOfMonth
    /\ SplitOff
    /\ ParseOff

Next ==
    \/ \E r \in Live : GetPortfolioReturns(r)
    \/ \E r \in Live : FetchNewsReturns(r)
    \/ \E r \in Live : AnalyzePortfolioReturns(r)
    \/ \E r \in Live : SendMarkdownReturns(r)
    \/ \E r \in Live : SendPlainReturns(r)
    \/ \E r \in Live : SendNoticeReturns(r)
    \/ \E r \in Live : Retire(r)
    \/ SchedulerStart
    \/ SchedulerStop
    \/ SchedulerStopReturns
    \/ CronFire
    \/ RunNow
    \/ BotStart
    \/ BotStop
    \/ HandleAnalyzeCommand
    \/ DayPasses

Spec == Init /\ [][Next]_vars

----------------------------------------------------------------------------
(* Delivery on its own: one call of SendPortfolioAnalysis or of SendMessage,
   with arguments drawn from larger sets *)

DeliveryPortfolios ==
    { DemoPortfolio,
      [Positions |-> <<>>, TotalAmount |-> 0, ExpectedYield |-> 0, Currency |-> RUB],
      [Positions |-> <<PositionSBER>>, TotalAmount |-> 1234567,
       ExpectedYield |-> 0 - 1050, Currency |-> RUB] }

DeliveryAnalyses ==
    { [Summary |-> ShortSummary, Recommendations |-> recs, IsMonthlyReminder |-> flag] :
        recs \in { <<>>,
                   <<RecommendationSBER(BUY, ShortReason)>>,
                   <<RecommendationSBER(SELL, ShortReason), RecommendationSBER(<<>>, <<>>)>>,
                   <<RecommendationSBER(HOLD, LongReason)>> },
        flag \in BOOLEAN }

DeliveryTexts ==
    { StartupText, UnknownCommandText, PortfolioErrPrefix \o ShortError,
      PortfolioErrPrefix \o LongError, LongReason \o LongReason }

\* the calls about to be made: SendPortfolioAnalysis(p, a), or SendMessage(text)
\* with the text waiting in the queue
DeliveryCalls ==
    { [NewRun("call", a.IsMonthlyReminder) EXCEPT
          !.pc = "SendPortfolioAnalysis", !.calls = <<>>,
          !.portfolio = <<p>>, !.analysis = <<a>>] :
        p \in DeliveryPortfolios, a \in DeliveryAnalyses }
    \cup
    { [NewRun("call", FALSE) EXCEPT
          !.pc = "SendMessage", !.calls = <<>>, !.queue = <<text>>] :
        text \in DeliveryTexts }

DeliveryInit ==
    /\ \E call \in DeliveryCalls : runs = SetToBag({call})
    /\ SchedulerAndBotNew
    /\ ClockOff
    /\ SplitOff
    /\ ParseOff

\* bot.go 219-261: SendPortfolioAnalysis runs up to its first api.Send
SendPortfolioAnalysisCalled(r) ==
    /\ r.pc = "SendPortfolioAnalysis"
    /\ runs' = Replace(r, EnterSendPortfolioAnalysis(r))
    /\ UNCHANGED <<cronRunning, cronEntries, stopWaiting, botState, today, chatID, updates, splitVars, parseVars>>

\* bot.go 185-207: SendMessage calls sendMessage, which runs up to its first
\* api.Send
SendMessageCalled(r) ==
    /\ r.pc = "SendMessage"
    /\ runs' = Replace(r, EnterSendMessage(r, Head(r.queue)))
    /\ UNCHANGED <<cronRunning, cronEntries, stopWaiting, botState, today, chatID, updates, splitVars, parseVars>>

DeliveryNext ==
    \/ \E r \in Live : SendPortfolioAnalysisCalled(r)
    \/ \E r \in Live : SendMessageCalled(r)
    \/ \E r \in Live : SendMarkdownReturns(r)
    \/ \E r \in Live : SendPlainReturns(r)
    \/ \E r \in Live : SendNoticeReturns(r)

DeliverySpec == DeliveryInit /\ [][DeliveryNext]_vars

----------------------------------------------------------------------------
(* splitMessage as a state machine: one step per loop iteration *)

\* texts over a newline and one other byte
SplitTexts == UNION {[1..n -> {NL, 97}] : n \in 0..MaxLen}

SplitInit ==
    /\ runs = EmptyBag
    /\ SchedulerAndBotNew
    /\ ClockOff
    /\ ParseOff
    /\ smText \in SplitTexts
    /\ smMax \in 0..MaxMax
    /\ smMessage = smText
    /\ smChunks = <<>>
    /\ smPc = "entry"

\* lines 284-288
SplitEntry ==
    /\ smPc = "entry"
    /\ IF SplitFits(smMessage, smMax)
       THEN smChunks' = <<smMessage>> /\ smPc' = "done"
       ELSE smChunks' = <<>> /\ smPc' = "loop"
    /\ UNCHANGED <<smText, smMax, smMessage, pipelineVars, parseVars>>

\* lines 289-304: one iteration of the loop (or its exit)
SplitIterate ==
    /\ smPc = "loop"
    /\ Len(smChunks) < MaxChunks
    /\ IF Len(smMessage) = 0
       THEN UNCHANGED <<smMessage, smChunks>> /\ smPc' = "done"
       ELSE IF SplitFits(smMessage, smMax)
       THEN /\ smChunks' = Append(smChunks, smMessage)
            /\ smPc' = "done"
            /\ UNCHANGED smMessage
       ELSE LET cutIndex == CutIndex(smMessage, smMax)
            IN /\ smChunks' = Append(smChunks, SplitChunk(smMessage, cutIndex))
               /\ smMessage' = SplitRest(smMessage, cutIndex)
               /\ smPc' = "loop"
    /\ UNCHANGED <<smText, smMax, pipelineVars, parseVars>>

SplitNext == SplitEntry \/ SplitIterate

SplitSpec == SplitInit /\ [][SplitNext]_vars

\* the call runs on: the goroutine that called splitMessage is not suspended
\* inside it
SplitLiveSpec == SplitInit /\ [][SplitNext]_vars /\ WF_vars(SplitNext)

----------------------------------------------------------------------------
(* Specification of the bot's update loop *)

\* the bot is constructed with the chat id of the configuration (bot.go 30-47)
UpdateInit ==
    /\ runs = EmptyBag
    /\ cronRunning = FALSE
    /\ cronEntries = 0
    /\ stopWaiting = FALSE
    /\ botState = "new"
    /\ chatID \in ChatIDConfigs
    /\ updates = <<>>
    /\ ClockOff
    /\ SplitOff
    /\ ParseOff

UpdateNext ==
    \/ BotStart
    \/ BotStop
    \/ UpdateArrives
    \/ HandleUpdate
    \/ \E r \in Live : GetPortfolioReturns(r)
    \/ \E r \in Live : FetchNewsReturns(r)
    \/ \E r \in Live : AnalyzePortfolioReturns(r)
    \/ \E r \in Live : SendMarkdownReturns(r)
    \/ \E r \in Live : SendPlainReturns(r)
    \/ \E r \in Live : SendNoticeReturns(r)
    \/ \E r \in Live : Retire(r)

UpdateSpec == UpdateInit /\ [][UpdateNext]_vars

----------------------------------------------------------------------------
(* Specification of one execution of runPortfolioAnalysis and the deadline
   of its context *)

\* runPortfolioAnalysis(isMonthlyReminder) has been entered, by the cron or by
\* RunNow
DeadlineInit ==
    /\ \E kind \in SchedulerKinds, isMonthlyReminder \in BOOLEAN :
         runs = SetToBag({NewRun(kind, isMonthlyReminder)})
    /\ SchedulerAndBotNew
    /\ ClockOff
    /\ SplitOff
    /\ ParseOff

DeadlineNext ==
    \/ \E r \in Live : GetPortfolioReturns(r)
    \/ \E r \in Live : FetchNewsReturns(r)
    \/ \E r \in Live : AnalyzePortfolioReturns(r)
    \/ \E r \in Live : SendMarkdownReturns(r)
    \/ \E r \in Live : SendPlainReturns(r)
    \/ \E r \in Live : DeadlineExpires(r)

DeadlineSpec == DeadlineInit /\ [][DeadlineNext]_vars

----------------------------------------------------------------------------
(* Client.GetPortfolio (internal/invest/client.go). Amounts are numbers of
   hundredths; the rounding of float64 is not modelled, the values of the
   model have exact products and sums *)

\* a proto.Quotation or proto.MoneyValue behind a pointer: <<>> is nil
Money(units, nano) == <<[Units |-> units, Nano |-> nano]>>

\* float64(mv.Units) + float64(mv.Nano)/1e9, and 0 for nil
moneyValueToFloat64(mv) ==
    IF mv = <<>> THEN 0 ELSE mv[1].Units * 100 + mv[1].Nano \div 10000000

quotationToFloat64(q) ==
    IF q = <<>> THEN 0 ELSE q[1].Units * 100 + q[1].Nano \div 10000000

\* the product of two amounts
Times(x, y) == (x * y) \div 100

\* positions of portfolioResp: ten shares with a gain, half a share with a loss
\* in nano, one with no current price and no yield
ApiPositions ==
    { [Figi |-> "BBG004730N88", InstrumentType |-> "share",
       Quantity |-> Money(10, 0), AveragePositionPrice |-> Money(270, 500000000),
       CurrentPrice |-> Money(285, 300000000), ExpectedYield |-> Money(148, 0)],
      [Figi |-> "BBG004S68879", InstrumentType |-> "share",
       Quantity |-> Money(0, 500000000), AveragePositionPrice |-> Money(165, 0),
       CurrentPrice |-> Money(160, 0), ExpectedYield |-> Money(0 - 2, 0 - 500000000)],
      [Figi |-> "BBG00QPYJ5H0", InstrumentType |-> "bond",
       Quantity |-> Money(3, 0), AveragePositionPrice |-> <<>>,
       CurrentPrice |-> <<>>, ExpectedYield |-> <<>>] }

\* the most positions portfolioResp holds
MaxPositions == 3

\* portfolioResp.Positions
ApiPortfolios == UNION { [1..n -> ApiPositions] : n \in 0..MaxPositions }

\* lines 111-126: the Position built from a position of the response
PositionFrom(pos) ==
    [FIGI |-> pos.Figi, Ticker |-> pos.Figi, Name |-> pos.InstrumentType,
     InstrumentType |-> pos.InstrumentType,
     Quantity |-> quotationToFloat64(pos.Quantity),
     AveragePrice |-> moneyValueToFloat64(pos.AveragePositionPrice),
     CurrentPrice |-> moneyValueToFloat64(pos.CurrentPrice),
     ExpectedYield |-> quotationToFloat64(pos.ExpectedYield),
     Currency |-> RUB]

\* GetPortfolio(ctx) is entered and calls GetAccounts (lines 90-91)
GetPortfolioCall(resp) ==
    [kind |-> "GetPortfolio", pc |-> "GetAccounts", resp |-> resp, next |-> 1,
     positions |-> <<>>, totalAmount |-> 0, totalYield |-> 0,
     portfolio |-> <<>>, err |-> ""]

\* lines 91-98
GetAccountsReturns(c) ==
    /\ c.kind = "GetPortfolio" /\ c.pc = "GetAccounts"
    /\ \E outcome \in {"ok", "error", "noaccounts"} :
         runs' = Replace(c,
            CASE outcome = "error" ->
                   [c EXCEPT !.pc = "returned", !.err = "failed to get accounts"]
              [] outcome = "noaccounts" ->
                   [c EXCEPT !.pc = "returned", !.err = "no accounts found"]
              [] OTHER -> [c EXCEPT !.pc = "OperationsGetPortfolio"])
    /\ UNCHANGED <<cronRunning, cronEntries, stopWaiting, botState, today, chatID, updates, splitVars, parseVars>>

\* lines 101-108
OperationsGetPortfolioReturns(c) ==
    /\ c.kind = "GetPortfolio" /\ c.pc = "OperationsGetPortfolio"
    /\ \E ok \in BOOLEAN :
         runs' = Replace(c,
            IF ok THEN [c EXCEPT !.pc = "loop"]
            ELSE [c EXCEPT !.pc = "returned", !.err = "failed to get portfolio"])
    /\ UNCHANGED <<cronRunning, cronEntries, stopWaiting, botState, today, chatID, updates, splitVars, parseVars>>

\* a variant of Accumulate that leaves the losses out of the yield
AccumulateGainsOnly(c, position) ==
    [c EXCEPT !.positions = Append(@, position),
              !.totalAmount = @ + Times(position.Quantity, position.CurrentPrice),
              !.totalYield = @ + IF position.ExpectedYield > 0
                                 THEN position.ExpectedYield ELSE 0,
              !.next = @ + 1]

\* lines 116-128: the position is appended and added to the totals
Accumulate(c, position) ==
    [c EXCEPT !.positions = Append(@, position),
              !.totalAmount = @ + Times(position.Quantity, position.CurrentPrice),
              !.totalYield = @ + position.ExpectedYield,
              !.next = @ + 1]

\* one iteration of the loop of lines 110-129
GetPortfolioIterates(c) ==
    /\ c.kind = "GetPortfolio" /\ c.pc = "loop"
    /\ c.next <= Len(c.resp)
    /\ runs' = Replace(c, Accumulate(c, PositionFrom(c.resp[c.next])))
    /\ UNCHANGED <<cronRunning, cronEntries, stopWaiting, botState, today, chatID, updates, splitVars, parseVars>>

\* lines 131-136
ClientGetPortfolioReturns(c) ==
    /\ c.kind = "GetPortfolio" /\ c.pc = "loop"
    /\ c.next > Len(c.resp)
    /\ runs' = Replace(c,
          [c EXCEPT !.pc = "returned",
                    !.portfolio = <<[Positions |-> c.positions,
                                     TotalAmount |-> c.totalAmount,
                                     ExpectedYield |-> c.totalYield,
                                     Currency |-> RUB]>>])
    /\ UNCHANGED <<cronRunning, cronEntries, stopWaiting, botState, today, chatID, updates, splitVars, parseVars>>

\* part_001 lines 76-110: the positions of the revision of GetPortfolio that
\* returns a demonstration portfolio (SBER, LKOH, GAZP)
dummyPositions ==
    << [FIGI |-> "BBG004730N88", Ticker |-> <<83, 66, 69, 82>>, Name |-> <<208, 161, 208, 177, 208, 181, 209, 128, 208, 177, 208, 176, 208, 189, 208, 186>>,
        InstrumentType |-> <<208, 144, 208, 186, 209, 134, 208, 184, 209, 143>>, Quantity |-> 1000, AveragePrice |-> 27050,
        CurrentPrice |-> 28530, ExpectedYield |-> 14800, Currency |-> RUB],
       [FIGI |-> "BBG004S68CP5", Ticker |-> <<76, 75, 79, 72>>, Name |-> <<208, 155, 209, 131, 208, 186, 208, 190, 208, 185, 208, 187>>,
        InstrumentType |-> <<208, 144, 208, 186, 209, 134, 208, 184, 209, 143>>, Quantity |-> 500, AveragePrice |-> 650000,
        CurrentPrice |-> 670000, ExpectedYield |-> 100000, Currency |-> RUB],
       [FIGI |-> "BBG004S68879", Ticker |-> <<71, 65, 90, 80>>, Name |-> <<208, 147, 208, 176, 208, 183, 208, 191, 209, 128, 208, 190, 208, 188>>,
        InstrumentType |-> <<208, 144, 208, 186, 209, 134, 208, 184, 209, 143>>, Quantity |-> 2000, AveragePrice |-> 16500,
        CurrentPrice |-> 16000, ExpectedYield |-> 0 - 10000, Currency |-> RUB] >>

\* part_001 line 74: GetPortfolio(ctx) of that revision is entered
DummyGetPortfolioCall ==
    [kind |-> "GetPortfolio", pc |-> "dummy loop", resp |-> dummyPositions, next |-> 1,
     positions |-> dummyPositions, totalAmount |-> 0, totalYield |-> 0,
     portfolio |-> <<>>, err |-> ""]

\* part_001 lines 114-117: one iteration of the loop over dummyPositions
DummyIterates(c) ==
    /\ c.kind = "GetPortfolio" /\ c.pc = "dummy loop"
    /\ c.next <= Len(c.resp)
    /\ runs' = Replace(c,
          [c EXCEPT !.totalAmount = @ + Times(c.resp[c.next].Quantity, c.resp[c.next].CurrentPrice),
                    !.totalYield = @ + c.resp[c.next].ExpectedYield,
                    !.next = @ + 1])
    /\ UNCHANGED <<cronRunning, cronEntries, stopWaiting, botState, today, chatID, updates, splitVars, parseVars>>

\* part_001 lines 119-124
DummyGetPortfolioReturns(c) ==
    /\ c.kind = "GetPortfolio" /\ c.pc = "dummy loop"
    /\ c.next > Len(c.resp)
    /\ runs' = Replace(c,
          [c EXCEPT !.pc = "returned",
                    !.portfolio = <<[Positions |-> dummyPositions,
                                     TotalAmount |-> c.totalAmount,
                                     ExpectedYield |-> c.totalYield,
                                     Currency |-> RUB]>>])
    /\ UNCHANGED <<cronRunning, cronEntries, stopWaiting, botState, today, chatID, updates, splitVars, parseVars>>

\* a call of either revision of GetPortfolio
PortfolioInit ==
    /\ \/ \E resp \in ApiPortfolios : runs = SetToBag({GetPortfolioCall(resp)})
       \/ runs = SetToBag({DummyGetPortfolioCall})
    /\ SchedulerAndBotNew
    /\ ClockOff
    /\ SplitOff
    /\ ParseOff

PortfolioNext ==
    \/ \E c \in Live : GetAccountsReturns(c)
    \/ \E c \in Live : OperationsGetPortfolioReturns(c)
    \/ \E c \in Live : GetPortfolioIterates(c)
    \/ \E c \in Live : ClientGetPortfolioReturns(c)
    \/ \E c \in Live : DummyIterates(c)
    \/ \E c \in Live : DummyGetPortfolioReturns(c)

PortfolioSpec == PortfolioInit /\ [][PortfolioNext]_vars

----------------------------------------------------------------------------
(* The parser of the advisory response (package analysis) *)

\* 'RECOMMENDATIONS:'  (line 175)
RecommendationsMarker == <<82, 69, 67, 79, 77, 77, 69, 78, 68, 65, 84, 73, 79, 78, 83, 58>>

\* 'РЕКОМЕНДАЦИИ:'  (line 177)
RecommendationsMarkerRu == <<208, 160, 208, 149, 208, 154, 208, 158, 208, 156, 208, 149, 208, 157, 208, 148, 208, 144, 208, 166, 208, 152, 208, 152, 58>>

\* 'SUMMARY:'  (line 183)
SummaryPrefix == <<83, 85, 77, 77, 65, 82, 89, 58>>

\* 'OPPORTUNITIES:'  (line 282)
OpportunitiesMarker == <<79, 80, 80, 79, 82, 84, 85, 78, 73, 84, 73, 69, 83, 58>>

\* 'Explanation:'  (line 308)
ExplanationPrefix == <<69, 120, 112, 108, 97, 110, 97, 116, 105, 111, 110, 58>>

\* '-'  (line 221)
Hyphen == <<45>>

\* ':'  (line 295)
Colon == <<58>>

\* 'Analysis completed, but could not parse specific recommendations.'  (line 259)
FallbackSummary == <<65, 110, 97, 108, 121, 115, 105, 115, 32, 99, 111, 109, 112, 108, 101, 116, 101, 100, 44, 32, 98, 117, 116, 32, 99, 111, 117, 108, 100, 32, 110, 111, 116, 32, 112, 97, 114, 115, 101, 32, 115, 112, 101, 99, 105, 102, 105, 99, 32, 114, 101, 99, 111, 109, 109, 101, 110, 100, 97, 116, 105, 111, 110, 115, 46>>

\* 'Based on current position yield.'  (line 275)
FallbackReason == <<66, 97, 115, 101, 100, 32, 111, 110, 32, 99, 117, 114, 114, 101, 110, 116, 32, 112, 111, 115, 105, 116, 105, 111, 110, 32, 121, 105, 101, 108, 100, 46>>

\* strings.Index, counted from 1; 0 when sep does not occur in s
IndexOf(s, sep) ==
    LET hits == { i \in 1..(Len(s) - Len(sep) + 1) : SubSeq(s, i, i + Len(sep) - 1) = sep }
    IN  IF hits = {} THEN 0 ELSE Min(hits)

\* strings.Contains
Contains(s, sep) == IndexOf(s, sep) # 0

\* strings.HasPrefix
HasPrefix(s, prefix) ==
    Len(s) >= Len(prefix) /\ SubSeq(s, 1, Len(prefix)) = prefix

\* strings.TrimPrefix
TrimPrefix(s, prefix) ==
    IF HasPrefix(s, prefix) THEN SubSeq(s, Len(prefix) + 1, Len(s)) ELSE s

\* strings.Split with a non-empty separator
RECURSIVE Split(_, _)
Split(s, sep) ==
    LET i == IndexOf(s, sep)
    IN  IF i = 0 THEN <<s>>
        ELSE <<SubSeq(s, 1, i - 1)>> \o Split(SubSeq(s, i + Len(sep), Len(s)), sep)

\* strings.SplitN(s, sep, 2)
SplitN2(s, sep) ==
    LET i == IndexOf(s, sep)
    IN  IF i = 0 THEN <<s>>
        ELSE <<SubSeq(s, 1, i - 1), SubSeq(s, i + Len(sep), Len(s))>>

\* unicode.IsSpace on the one-byte characters: '\t', '\n', '\v', '\f', '\r', ' '
IsSpace(b) == b \in 9..13 \/ b = 32

\* strings.TrimSpace
TrimSpace(s) ==
    LET kept == { i \in 1..Len(s) : ~IsSpace(s[i]) }
    IN  IF kept = {} THEN <<>>
        ELSE SubSeq(s, Min(kept), Max(kept))

\* strings.ToUpper on the bytes of 'a'..'z'; the texts of the model hold no
\* other lower-case letters
ToUpper(s) == [i \in 1..Len(s) |-> IF s[i] \in 97..122 THEN s[i] - 32 ELSE s[i]]

\* lines 165-166
CleanedText(analysisText) ==
    ReplaceAllEmpty(ReplaceAllEmpty(analysisText, STAR), UNDERSCORE)

\* lines 174-178: the text split at the English heading, else at the Russian
SummaryParts(cleanedText) ==
    IF Len(Split(cleanedText, RecommendationsMarker)) < 2
    THEN Split(cleanedText, RecommendationsMarkerRu)
    ELSE Split(cleanedText, RecommendationsMarker)

\* a variant of ExtractSummary that does not look at the next line
ExtractSummarySameLine(text) ==
    LET summaryLines == Split(text, <<NL>>)
        found == { i \in 1..Len(summaryLines) : HasPrefix(summaryLines[i], SummaryPrefix) }
    IN  IF found = {} THEN <<>>
        ELSE TrimSpace(TrimPrefix(summaryLines[Min(found)], SummaryPrefix))

\* lines 181-190 and 193-202: the summary of the first line that starts with
\* "SUMMARY:", taken from the next line when the rest of that line is blank
ExtractSummary(text) ==
    LET summaryLines == Split(text, <<NL>>)
        found == { i \in 1..Len(summaryLines) : HasPrefix(summaryLines[i], SummaryPrefix) }
    IN  IF found = {} THEN <<>>
        ELSE LET i == Min(found)
                 summary == TrimSpace(TrimPrefix(summaryLines[i], SummaryPrefix))
             IN  IF i + 1 <= Len(summaryLines) /\ summary = <<>>
                 THEN TrimSpace(summaryLines[i + 1])
                 ELSE summary

\* a variant of TickerStartsLine that looks for the ticker anywhere in the line
TickerInLine(line, pos) == Contains(line, pos.Ticker)

\* line 217
TickerStartsLine(line, pos) == HasPrefix(line, pos.Ticker)

\* a variant of LineAction that takes the text after the hyphen as it is
LineActionVerbatim(line) ==
    LET parts == SplitN2(line, Hyphen)
    IN  IF Len(parts) <= 1 THEN <<>> ELSE TrimSpace(parts[2])

\* a variant of LineAction that guesses HOLD when it finds no token
LineActionDefaultHold(line) ==
    LET parts == SplitN2(line, Hyphen)
    IN  IF Len(parts) <= 1 THEN <<>>
        ELSE LET p == ToUpper(parts[2])
             IN  IF Contains(p, BUY) THEN BUY
                 ELSE IF Contains(p, SELL) THEN SELL
                 ELSE HOLD

\* lines 223-234
LineAction(line) ==
    LET parts == SplitN2(line, Hyphen)
    IN  IF Len(parts) <= 1 THEN <<>>
        ELSE LET p == ToUpper(parts[2])
             IN  IF Contains(p, BUY) THEN BUY
                 ELSE IF Contains(p, SELL) THEN SELL
                 ELSE IF Contains(p, HOLD) THEN HOLD
                 ELSE <<>>

\* a variant of AdoptsRationale that takes any line that is not blank
AdoptsAnyLine(next, pos) == next # <<>>

\* lines 242-243: the line after a ticker line, trimmed, is its explanation
AdoptsRationale(next, pos) == next # <<>> /\ ~HasPrefix(next, pos.Ticker)

\* lines 208-254: the loop over recsLines from index i (counted from 1), with
\* currentRec a sequence of no or one recommendation
RECURSIVE RecsLoop(_, _, _, _, _)
RecsLoop(recsLines, positions, i, currentRec, recs) ==
    IF i > Len(recsLines) THEN recs \o currentRec
    ELSE
        LET line == TrimSpace(recsLines[i])
            matching == { k \in 1..Len(positions) : TickerStartsLine(line, positions[k]) }
        IN  IF line = <<>> \/ matching = {}
            THEN RecsLoop(recsLines, positions, i + 1, currentRec, recs)
            ELSE
                LET pos == positions[Min(matching)]
                    next == IF i + 1 <= Len(recsLines)
                            THEN TrimSpace(recsLines[i + 1]) ELSE <<>>
                    explained == AdoptsRationale(next, pos)
                    rec == [Ticker |-> pos.Ticker, Name |-> pos.Name,
                            Action |-> LineAction(line),
                            Reason |-> IF explained THEN next ELSE <<>>]
                IN  RecsLoop(recsLines, positions,
                             IF explained THEN i + 2 ELSE i + 1,
                             <<rec>>, recs \o currentRec)

\* lines 205-254
ScanRecommendations(recsText, positions) ==
    RecsLoop(Split(recsText, <<NL>>), positions, 1, <<>>, <<>>)

\* a variant of YieldAction that never advises to sell
YieldActionIgnoresLoss(pos) ==
    IF pos.ExpectedYield > 0 THEN BUY ELSE HOLD

\* lines 264-270
YieldAction(pos) ==
    IF pos.ExpectedYield > 0 THEN BUY
    ELSE IF pos.ExpectedYield < 0 THEN SELL
    ELSE HOLD

\* lines 262-277
FallbackRecommendations(positions) ==
    [k \in 1..Len(positions) |->
        [Ticker |-> positions[k].Ticker, Name |-> positions[k].Name,
         Action |-> YieldAction(positions[k]), Reason |-> FallbackReason]]

\* line 258
NeedsFallback(recs, cleanedText) ==
    Len(recs) = 0 /\ TrimSpace(cleanedText) # <<>>

\* a variant of OpportunityAction that drops the text
OpportunityActionNone(text) == <<>>

\* line 293
OpportunityAction(text) == TrimSpace(text)

\* lines 286-314: the loop over oppLines from index i (counted from 1)
RECURSIVE OppsLoop(_, _, _)
OppsLoop(oppLines, i, opps) ==
    IF i > Len(oppLines) THEN opps
    ELSE
        LET line == TrimSpace(oppLines[i])
        IN  IF line = <<>> \/ ~Contains(line, Hyphen)
            THEN OppsLoop(oppLines, i + 1, opps)
            ELSE
                LET parts == SplitN2(line, Hyphen)
                    tn == SplitN2(TrimSpace(parts[1]), Colon)
                    next == IF i + 1 <= Len(oppLines)
                            THEN TrimSpace(oppLines[i + 1]) ELSE <<>>
                    explained == i + 1 <= Len(oppLines) /\ HasPrefix(next, ExplanationPrefix)
                    opp == [Ticker |-> TrimSpace(tn[1]),
                            Name |-> IF Len(tn) > 1 THEN TrimSpace(tn[2]) ELSE <<>>,
                            Action |-> OpportunityAction(parts[2]),
                            Reason |-> IF explained
                                       THEN TrimSpace(TrimPrefix(next, ExplanationPrefix))
                                       ELSE <<>>]
                IN  OppsLoop(oppLines, IF explained THEN i + 2 ELSE i + 1,
                             opps \o <<opp>>)

\* lines 282-315
ScanOpportunities(cleanedText) ==
    IF Contains(cleanedText, OpportunitiesMarker)
    THEN OppsLoop(Split(SplitN2(cleanedText, OpportunitiesMarker)[2], <<NL>>), 1, <<>>)
    ELSE <<>>

\* parseAnalysisResponse, lines 163-318; err is always nil (line 318)
parseAnalysisResponse(analysisText, positions) ==
    LET cleanedText == CleanedText(analysisText)
        summaryParts == SummaryParts(cleanedText)
        summary == IF Len(summaryParts) < 2 THEN ExtractSummary(cleanedText)
                   ELSE ExtractSummary(summaryParts[1])
        recs == IF Len(summaryParts) < 2 THEN <<>>
                ELSE ScanRecommendations(summaryParts[2], positions)
        fallback == NeedsFallback(recs, cleanedText)
    IN  [Summary |-> IF fallback THEN FallbackSummary ELSE summary,
         Recommendations |-> IF fallback THEN FallbackRecommendations(positions) ELSE recs,
         Opportunities |-> ScanOpportunities(cleanedText),
         err |-> "nil"]

----------------------------------------------------------------------------
(* The revision of the parser in src/unnamed/part_002: the same function
   with another scan of the recommendations block and no opportunities *)

\* ' -' and ' –' (an en dash), the separators of part_002 line 211 beside ':'
SpaceHyphen == <<32, 45>>

SpaceEnDash == <<32, 226, 128, 147>>

\* part_002 line 211
TickerSeparatorStartsLine(line, pos) ==
    \/ HasPrefix(line, pos.Ticker \o Colon)
    \/ HasPrefix(line, pos.Ticker \o SpaceHyphen)
    \/ HasPrefix(line, pos.Ticker \o SpaceEnDash)

\* part_002 lines 218-225
WholeLineAction(line) ==
    IF Contains(line, BUY) THEN BUY
    ELSE IF Contains(line, SELL) THEN SELL
    ELSE IF Contains(line, HOLD) THEN HOLD
    ELSE <<>>

\* a variant of WithReason that takes only a line with the prefix
WithReasonPrefixedOnly(currentRec, line) ==
    IF currentRec = <<>> THEN currentRec
    ELSE IF HasPrefix(line, ExplanationPrefix)
    THEN <<[currentRec[1] EXCEPT !.Reason = TrimSpace(TrimPrefix(line, ExplanationPrefix))]>>
    ELSE currentRec

\* part_002 lines 237-242: currentRec after the line, be it a ticker line or not
WithReason(currentRec, line) ==
    IF currentRec = <<>> THEN currentRec
    ELSE IF HasPrefix(line, ExplanationPrefix)
    THEN <<[currentRec[1] EXCEPT !.Reason = TrimSpace(TrimPrefix(line, ExplanationPrefix))]>>
    ELSE IF currentRec[1].Reason = <<>> /\ ~Contains(line, currentRec[1].Ticker)
    THEN <<[currentRec[1] EXCEPT !.Reason = line]>>
    ELSE currentRec

\* part_002 lines 213-215 and 246-248: the recommendation is appended
Completed(currentRec) ==
    IF currentRec # <<>> /\ currentRec[1].Ticker # <<>> THEN currentRec ELSE <<>>

\* part_002 lines 203-243: the loop over recsLines from index i (counted from 1)
RECURSIVE RecsLoopV1(_, _, _, _, _)
RecsLoopV1(recsLines, positions, i, currentRec, recs) ==
    IF i > Len(recsLines) THEN recs \o Completed(currentRec)
    ELSE
        LET line == TrimSpace(recsLines[i])
            matching == { k \in 1..Len(positions) : TickerSeparatorStartsLine(line, positions[k]) }
        IN  IF line = <<>>
            THEN RecsLoopV1(recsLines, positions, i + 1, currentRec, recs)
            ELSE IF matching = {}
            THEN RecsLoopV1(recsLines, positions, i + 1, WithReason(currentRec, line), recs)
            ELSE
                LET pos == positions[Min(matching)]
                    rec == [Ticker |-> pos.Ticker, Name |-> pos.Name,
                            Action |-> WholeLineAction(line), Reason |-> <<>>]
                IN  RecsLoopV1(recsLines, positions, i + 1,
                               WithReason(<<rec>>, line), recs \o Completed(currentRec))

\* part_002 lines 198-248
ScanRecommendationsV1(recsText, positions) ==
    RecsLoopV1(Split(recsText, <<NL>>), positions, 1, <<>>, <<>>)

\* parseAnalysisResponse of part_002, lines 157-275; err is always nil
parseAnalysisResponseV1(analysisText, positions) ==
    LET cleanedText == CleanedText(analysisText)
        summaryParts == SummaryParts(cleanedText)
        summary == IF Len(summaryParts) < 2 THEN ExtractSummary(cleanedText)
                   ELSE ExtractSummary(summaryParts[1])
        recs == IF Len(summaryParts) < 2 THEN <<>>
                ELSE ScanRecommendationsV1(summaryParts[2], positions)
        fallback == NeedsFallback(recs, cleanedText)
    IN  [Summary |-> IF fallback THEN FallbackSummary ELSE summary,
         Recommendations |-> IF fallback THEN FallbackRecommendations(positions) ELSE recs,
         err |-> "nil"]

----------------------------------------------------------------------------
(* Specification of one call of parseAnalysisResponse *)

\* positions of the portfolio besides SBER: a ticker SBER is a prefix of, with
\* a negative yield, and one with no yield
PositionSBERP ==
    [Ticker |-> <<83, 66, 69, 82, 80>>,
     Name |-> <<83, 98, 101, 114, 45, 112>>,
     ExpectedYield |-> 0 - 2500]

PositionGAZP ==
    [Ticker |-> <<71, 65, 90, 80>>,
     Name |-> <<71, 97, 122, 112, 114, 111, 109>>,
     ExpectedYield |-> 0]

\* portfolio.Positions of the call
PositionLists ==
    { <<PositionSBER>>,
      <<PositionSBER, PositionGAZP>>, <<PositionGAZP, PositionSBER>>,
      <<PositionSBER, PositionSBERP>>, <<PositionSBERP, PositionSBER>>,
      <<PositionGAZP, PositionSBERP, PositionSBER>> }

\* lines of a response in the format the prompt asks for (lines 68-70): the
\* text of the line, and for a line that recommends, its ticker and action
\* 'SBER: Sberbank - BUY': a recommendation
LineSBER ==
    [text |-> <<83, 66, 69, 82, 58, 32, 83, 98, 101, 114, 98, 97, 110, 107, 32, 45, 32, 66, 85, 89>>,
     ticker |-> <<83, 66, 69, 82>>, action |-> BUY]

\* 'SBERP: Sber pref - SELL': a recommendation
LineSBERP ==
    [text |-> <<83, 66, 69, 82, 80, 58, 32, 83, 98, 101, 114, 32, 112, 114, 101, 102, 32, 45, 32, 83, 69, 76, 76>>,
     ticker |-> <<83, 66, 69, 82, 80>>, action |-> SELL]

\* 'GAZP: Gazprom - HOLD': a recommendation
LineGAZP ==
    [text |-> <<71, 65, 90, 80, 58, 32, 71, 97, 122, 112, 114, 111, 109, 32, 45, 32, 72, 79, 76, 68>>,
     ticker |-> <<71, 65, 90, 80>>, action |-> HOLD]

\* 'SBER: Sberbank - wait': a recommendation with no action token
LineWait ==
    [text |-> <<83, 66, 69, 82, 58, 32, 83, 98, 101, 114, 98, 97, 110, 107, 32, 45, 32, 119, 97, 105, 116>>,
     ticker |-> <<83, 66, 69, 82>>, action |-> <<>>]

\* 'Strong fundamentals.': an explanation
LineRationale ==
    [text |-> <<83, 116, 114, 111, 110, 103, 32, 102, 117, 110, 100, 97, 109, 101, 110, 116, 97, 108, 115, 46>>,
     ticker |-> <<>>, action |-> <<>>]

\* '': an empty line
LineBlank ==
    [text |-> <<>>,
     ticker |-> <<>>, action |-> <<>>]

\* '**': a line of emphasis delimiters only
LineMarkup ==
    [text |-> <<42, 42>>,
     ticker |-> <<>>, action |-> <<>>]

ResponseLines ==
    { LineSBER, LineSBERP, LineGAZP, LineWait, LineRationale, LineBlank, LineMarkup }

\* the most lines a response of the model has after its heading
MaxLines == 3

\* 'SUMMARY:\nAll good.\n\n'  (the summary block of the format, lines 65-66)
HeadSummary == <<83, 85, 77, 77, 65, 82, 89, 58, 10, 65, 108, 108, 32, 103, 111, 111, 100, 46, 10, 10>>

\* what a response starts with
ResponseHeads == { <<>>, HeadSummary }

\* 'RECOMMENDATIONS:\n'  (line 68)
HeadingEnglish == <<82, 69, 67, 79, 77, 77, 69, 78, 68, 65, 84, 73, 79, 78, 83, 58, 10>>

\* '**РЕКОМЕНДАЦИИ:**\n'  (the heading translated and emphasised)
HeadingRussianBold == <<42, 42, 208, 160, 208, 149, 208, 154, 208, 158, 208, 156, 208, 149, 208, 157, 208, 148, 208, 144, 208, 166, 208, 152, 208, 152, 58, 42, 42, 10>>

\* the heading of the recommendations block; <<>> when the response has none
ResponseHeadings == { <<>>, HeadingEnglish, HeadingRussianBold }

\* 'LONG'  (line 73)
LONG == <<76, 79, 78, 71>>

\* 'SHORT'  (line 73)
SHORT == <<83, 72, 79, 82, 84>>

\* 'OPPORTUNITIES:\nLKOH: Lukoil - LONG\nExplanation: Oil.\n'  (lines 72-74)
TailOpportunity == <<79, 80, 80, 79, 82, 84, 85, 78, 73, 84, 73, 69, 83, 58, 10, 76, 75, 79, 72, 58, 32, 76, 117, 107, 111, 105, 108, 32, 45, 32, 76, 79, 78, 71, 10, 69, 120, 112, 108, 97, 110, 97, 116, 105, 111, 110, 58, 32, 79, 105, 108, 46, 10>>

\* 'OPPORTUNITIES:\nLKOH: Lukoil - LONG on dips\n'  (an opportunity whose action is prose)
TailOpportunityProse == <<79, 80, 80, 79, 82, 84, 85, 78, 73, 84, 73, 69, 83, 58, 10, 76, 75, 79, 72, 58, 32, 76, 117, 107, 111, 105, 108, 32, 45, 32, 76, 79, 78, 71, 32, 111, 110, 32, 100, 105, 112, 115, 10>>

\* what a response ends with
ResponseTails == { <<>>, TailOpportunity, TailOpportunityProse }

\* the responses of the model: a head, a heading, up to MaxLines lines, a tail
Responses ==
    [head : ResponseHeads, heading : ResponseHeadings,
     body : UNION { [1..n -> ResponseLines] : n \in 0..MaxLines },
     tail : ResponseTails]

\* response.Choices[0].Message.Content (line 112) of a response
ResponseText(input) ==
    input.head \o input.heading
        \o Join([k \in 1..Len(input.body) |-> input.body[k].text \o <<NL>>])
        \o input.tail

ParseInit ==
    /\ runs = EmptyBag
    /\ SchedulerAndBotNew
    /\ ClockOff
    /\ SplitOff
    /\ paInput \in Responses
    /\ paText = ResponseText(paInput)
    /\ paPositions \in PositionLists
    /\ paAnalysis = <<>>
    /\ paPc = "called"

\* parseAnalysisResponse(analysisText, portfolio), line 114
ParseAnalysisResponseReturns ==
    /\ paPc = "called"
    /\ paAnalysis' = parseAnalysisResponse(paText, paPositions)
    /\ paPc' = "returned"
    /\ UNCHANGED <<paInput, paText, paPositions, pipelineVars, splitVars>>

ParseNext == ParseAnalysisResponseReturns

ParseSpec == ParseInit /\ [][ParseNext]_vars

----------------------------------------------------------------------------
(* Specification of one call of parseAnalysisResponse, of either revision, on
   responses whose recommendations block holds lines of free form *)

\* 'SBER: BUY': a ticker line with a colon and no hyphen
TextColonOnly == <<83, 66, 69, 82, 58, 32, 66, 85, 89>>

\* 'GAZP - hold': a ticker line with a hyphen and the action in lower case
TextLowerCase == <<71, 65, 90, 80, 32, 45, 32, 104, 111, 108, 100>>

\* 'SBER: Sberbank - SELL, do not BUY': a ticker line with two action tokens
TextSellNotBuy == <<83, 66, 69, 82, 58, 32, 83, 98, 101, 114, 98, 97, 110, 107, 32, 45, 32, 83, 69, 76, 76, 44, 32, 100, 111, 32, 110, 111, 116, 32, 66, 85, 89>>

\* 'Explanation: Strong.': an explanation with its prefix
TextExplanation == <<69, 120, 112, 108, 97, 110, 97, 116, 105, 111, 110, 58, 32, 83, 116, 114, 111, 110, 103, 46>>

\* 'SBERBANK grows': a line that begins with a word a ticker is a prefix of
TextWord == <<83, 66, 69, 82, 66, 65, 78, 75, 32, 103, 114, 111, 119, 115>>

\* 'Unlike SBER: weak': a line with a ticker and a colon later in the line
TextMention == <<85, 110, 108, 105, 107, 101, 32, 83, 66, 69, 82, 58, 32, 119, 101, 97, 107>>

\* the lines of the recommendations block
ScanLines ==
    { LineSBER.text, LineGAZP.text, LineSBERP.text, LineWait.text, TextColonOnly, TextLowerCase,
      TextSellNotBuy, TextExplanation, LineRationale.text, TextWord, TextMention,
      LineBlank.text }

\* 'SUMMARY: All good.\n': the summary on the line of the prefix
HeadSummaryInline == <<83, 85, 77, 77, 65, 82, 89, 58, 32, 65, 108, 108, 32, 103, 111, 111, 100, 46, 10>>

\* 'SUMMARY:\n\nAll good.\n': an empty line between the prefix and the summary
HeadSummaryAfterBlank == <<83, 85, 77, 77, 65, 82, 89, 58, 10, 10, 65, 108, 108, 32, 103, 111, 111, 100, 46, 10>>

\* what the responses start with
ScanHeads == { <<>>, HeadSummary, HeadSummaryInline, HeadSummaryAfterBlank }

\* portfolio.Positions of the call
ScanPositionLists ==
    { <<PositionSBER, PositionGAZP>>, <<PositionSBER, PositionSBERP>>,
      <<PositionSBERP, PositionSBER, PositionGAZP>> }

\* the two revisions of package analysis in the repository
Revisions == { "part_002", "part_003" }

\* the responses: a head, the heading, up to MaxLines lines
ScanResponses ==
    [revision : Revisions, head : ScanHeads,
     body : UNION { [1..n -> ScanLines] : n \in 0..MaxLines }]

ScanText(input) ==
    input.head \o HeadingEnglish
        \o Join([k \in 1..Len(input.body) |-> input.body[k] \o <<NL>>])

ScanInit ==
    /\ runs = EmptyBag
    /\ SchedulerAndBotNew
    /\ ClockOff
    /\ SplitOff
    /\ paInput \in ScanResponses
    /\ paText = ScanText(paInput)
    /\ paPositions \in ScanPositionLists
    /\ paAnalysis = <<>>
    /\ paPc = "called"

\* parseAnalysisResponse(analysisText, portfolio) of the revision built
ScanReturns ==
    /\ paPc = "called"
    /\ paAnalysis' = IF paInput.revision = "part_002"
                     THEN parseAnalysisResponseV1(paText, paPositions)
                     ELSE parseAnalysisResponse(paText, paPositions)
    /\ paPc' = "returned"
    /\ UNCHANGED <<paInput, paText, paPositions, pipelineVars, splitVars>>

ScanNext == ScanReturns

ScanSpec == ScanInit /\ [][ScanNext]_vars

----------------------------------------------------------------------------
(* Specification of one execution of the workflow in which AnalyzePortfolio
   parses the response it gets *)

\* 'SUMMARY:\nAll good.\n\nRECOMMENDATIONS:\nSBER: Sberbank - BUY\nStrong fundamentals.\n'
ResponseStrict ==
    HeadSummary \o HeadingEnglish \o LineSBER.text \o <<NL>> \o LineRationale.text \o <<NL>>

\* response.Choices[0].Message.Content (line 112): a response in the format
\* asked for, and one in which no recommendation is found
ReminderResponses == { ResponseStrict, LineRationale.text }

ReminderInit ==
    /\ \E kind \in PipelineKinds, isMonthlyReminder \in BOOLEAN :
         runs = SetToBag({NewRun(kind, isMonthlyReminder)})
    /\ SchedulerAndBotNew
    /\ ClockOff
    /\ SplitOff
    /\ ParseOff

\* AnalyzePortfolio returns (analyzer lines 102-124), its analysis parsed from
\* the response by parseAnalysisResponse
AnalyzePortfolioParses(r) ==
    /\ r.pc = "AnalyzePortfolio"
    /\ \E outcome \in AdvisoryOutcomes(r), analysisText \in ReminderResponses,
          err \in ErrorTexts :
         runs' = Replace(r, AfterAnalyzePortfolio(r, outcome,
                     parseAnalysisResponse(analysisText, r.portfolio[1].Positions), err))
    /\ UNCHANGED <<cronRunning, cronEntries, stopWaiting, botState, today, chatID, updates, splitVars, parseVars>>

ReminderNext ==
    \/ \E r \in Live : GetPortfolioReturns(r)
    \/ \E r \in Live : FetchNewsReturns(r)
    \/ \E r \in Live : AnalyzePortfolioParses(r)
    \/ \E r \in Live : SendMarkdownReturns(r)
    \/ \E r \in Live : SendPlainReturns(r)
    \/ \E r \in Live : SendNoticeReturns(r)

ReminderSpec == ReminderInit /\ [][ReminderNext]_vars

----------------------------------------------------------------------------
(* Properties *)

Range(f) == {f[i] : i \in DOMAIN f}

\* the sends of the report made by SendPortfolioAnalysis, in order
ReportSends(r) == SelectSeq(r.sends, LAMBDA m : m.what = "report")

\* how many sends of the report the channel accepted
AcceptedReports(r) ==
    Cardinality({i \in DOMAIN ReportSends(r) : ReportSends(r)[i].outcome = "accepted"})

PipelineRuns == {r \in Live : r.kind \in PipelineKinds}

\* C1: at most one pipeline execution (scheduled, RunNow or manual) is in
\* flight at any time.
SingleFlight == NumInFlight <= 1

\* C2: a run whose news fetch failed is not aborted by it: it goes on to the
\* advisory generation with an empty article sequence, and when the advisory
\* succeeded and the channel accepted the report, the run ends successfully.
NewsFailureTolerated ==
    \A r \in PipelineRuns :
        r.newsFailed =>
            /\ r.articles = <<>>
            /\ "AnalyzePortfolio" \in Range(r.calls)
            /\ r.result # "failed to fetch news"
            /\ (r.pc = "done" /\ r.advisory = "ok" /\ AcceptedReports(r) > 0)
                   => r.result = "ok"

NewsFailureToleratedWitness ==
    \E r \in PipelineRuns :
        /\ r.newsFailed
        /\ r.pc = "done"
        /\ r.result = "ok"
        /\ r.articles = <<>>
        /\ AcceptedReports(r) = 1

\* the portfolio fetch of r has returned an error
PortfolioFailed(r) == r.pc # "GetPortfolio" /\ r.portfolio = <<>>

\* C3: when the portfolio fetch fails, no run invokes the news or the advisory
\* collaborator or SendPortfolioAnalysis, and a run of runPortfolioAnalysis
\* (scheduled or RunNow) has returned the error with no collaborator call other
\* than the fetch and nothing handed to the delivery channel.
PortfolioFailureAborts ==
    \A r \in PipelineRuns :
        PortfolioFailed(r) =>
            /\ Range(r.calls) \cap {"FetchNews", "AnalyzePortfolio", "SendPortfolioAnalysis"} = {}
            /\ r.result = "failed to get portfolio"
            /\ r.kind \in SchedulerKinds =>
                   /\ r.pc = "done"
                   /\ r.calls = <<"GetPortfolio">>
                   /\ r.sends = <<>>

PortfolioFailureAbortsWitness ==
    \E r \in PipelineRuns :
        /\ r.kind \in SchedulerKinds
        /\ PortfolioFailed(r)
        /\ r.pc = "done"

\* the advisory generation of r has returned an error or no choice
AdvisoryFailed(r) == r.advisory \in {"error", "nochoices"}

\* C4: when the advisory generation fails (an error of the collaborator or an
\* empty choice list), nothing is parsed, no report is formatted or handed to
\* the channel, and a run of runPortfolioAnalysis has returned the error.
AdvisoryFailureAborts ==
    \A r \in PipelineRuns :
        AdvisoryFailed(r) =>
            /\ r.analysis = <<>>
            /\ "SendPortfolioAnalysis" \notin Range(r.calls)
            /\ ReportSends(r) = <<>>
            /\ r.result = "failed to analyze portfolio"
            /\ r.kind \in SchedulerKinds => r.pc = "done" /\ r.sends = <<>>

AdvisoryFailureAbortsWitness ==
    \E r \in PipelineRuns, q \in PipelineRuns :
        /\ r.kind \in SchedulerKinds /\ r.pc = "done"
        /\ r.advisory = "error" /\ r.newsFailed
        /\ q.advisory = "nochoices" /\ ~q.newsFailed

\* C5: a finished run reports success exactly when the channel accepted the
\* report once; a run that ended with an error had no send of the report
\* accepted.
ErrorMeansNothingDelivered ==
    \A r \in PipelineRuns :
        r.pc = "done" =>
            AcceptedReports(r) = (IF r.result = "ok" THEN 1 ELSE 0)

ErrorMeansNothingDeliveredWitness ==
    \E r \in PipelineRuns, q \in PipelineRuns :
        /\ r.pc = "done" /\ r.result = "failed to send analysis to Telegram"
        /\ Len(ReportSends(r)) = 2
        /\ q.pc = "done" /\ q.result = "ok" /\ Len(ReportSends(q)) = 2

\* the text with every '*' and '_' taken out
WithoutDelimiters(text) == SelectSeq(text, LAMBDA b : b \notin {STAR, UNDERSCORE})

\* SendPortfolioAnalysis of r has returned
DeliveryReturned(r) ==
    /\ "SendPortfolioAnalysis" \in Range(r.calls)
    /\ r.pc \in {"done", "SendNotice"}

\* C6: the report is sent at most twice: first with markdown; a second time only
\* after the first was rejected, as the same text without '*' and '_' and
\* without a parse mode. Delivery fails exactly when both sends were rejected,
\* and no collaborator of the run is called twice.
DeliveryRetriesOncePlain ==
    \A r \in PipelineRuns :
        LET reports == ReportSends(r)
        IN /\ Len(reports) <= 2
           /\ Len(reports) >= 1 =>
                  /\ reports[1].markdown
                  /\ reports[1].text = FormatReport(r.portfolio[1], r.analysis[1])
           /\ Len(reports) = 2 =>
                  /\ reports[1].outcome = "rejected"
                  /\ ~reports[2].markdown
                  /\ reports[2].text = WithoutDelimiters(reports[1].text)
           /\ DeliveryReturned(r) =>
                  /\ (reports[1].outcome = "rejected" => Len(reports) = 2)
                  /\ (r.result = "failed to send analysis to Telegram"
                          <=> \A i \in DOMAIN reports : reports[i].outcome = "rejected")
           /\ \A c \in {"GetPortfolio", "FetchNews", "AnalyzePortfolio", "SendPortfolioAnalysis"} :
                  Cardinality({i \in DOMAIN r.calls : r.calls[i] = c}) <= 1

DeliveryRetriesOncePlainWitness ==
    \E r \in PipelineRuns :
        /\ r.pc = "done"
        /\ Len(ReportSends(r)) = 2
        /\ ReportSends(r)[1].outcome = "rejected"
        /\ ReportSends(r)[2].outcome = "accepted"
        /\ ReportSends(r)[2].text # ReportSends(r)[1].text

\* C7: every text handed to api.Send, by sendMessage or by
\* SendPortfolioAnalysis, has at most 4096 bytes.
PayloadsWithinLimit ==
    \A r \in Live : \A i \in DOMAIN r.sends :
        Len(r.sends[i].text) <= maxMessageLength

\* C8: when splitMessage returns, every chunk has at most maxLength bytes and
\* the chunks joined in order are the original text, byte for byte.
ChunksBoundedAndLossless ==
    smPc = "done" =>
        /\ \A i \in DOMAIN smChunks : Len(smChunks[i]) <= smMax
        /\ Join(smChunks) = smText

\* a result of several chunks, one of them cut at a newline that now opens the
\* following chunk
ChunksBoundedAndLosslessWitness ==
    /\ smPc = "done"
    /\ Len(smChunks) >= 2
    /\ \E i \in 2..Len(smChunks) :
           /\ Len(smChunks[i - 1]) < smMax
           /\ Len(smChunks[i]) > 0
           /\ smChunks[i][1] = NL

\* C9: a text of at most maxLength bytes comes back as the one-element
\* sequence holding it, and chunking the join of that result gives the same
\* result.
UndersizedUnchanged ==
    (smPc = "done" /\ Len(smText) <= smMax) =>
        /\ smChunks = <<smText>>
        /\ splitMessage(Join(smChunks), smMax) = smChunks

UndersizedUnchangedWitness ==
    /\ smPc = "done"
    /\ smMax > 0
    /\ Len(smText) = smMax
    /\ smChunks = <<smText>>

\* the 0-based index of the last newline in the first maxLength bytes of the
\* remaining text, -1 when there is none
WindowNewline == LastIndex(Slice(smMessage, 0, smMax), NL)

\* the loop is about to cut the remaining text
CutPending == smPc = "loop" /\ Len(smMessage) > smMax

\* C10 (as the code has it): when the remaining text is longer than maxLength,
\* the next chunk is the text before the last newline of the window if that
\* newline's index is at least maxLength / 2 (integer division), so a newline
\* exactly at the halfway index is a cut point; otherwise the chunk is the
\* first maxLength bytes. The rest starts where the chunk ends.
CutAtNewlineFromHalfway ==
    [][CutPending =>
           /\ smChunks' = Append(smChunks,
                  IF WindowNewline >= 0 /\ WindowNewline >= smMax \div 2
                  THEN Slice(smMessage, 0, WindowNewline)
                  ELSE Slice(smMessage, 0, smMax))
           /\ smChunks'[Len(smChunks')] \o smMessage' = smMessage]_vars

\* C10 (as claimed): the newline is the cut point only if its index is greater
\* than maxLength / 2; a newline exactly at the halfway index gives a hard cut.
CutAtNewlinePastHalfway ==
    [][CutPending =>
           smChunks' = Append(smChunks,
               IF WindowNewline >= 0 /\ 2 * WindowNewline > smMax
               THEN Slice(smMessage, 0, WindowNewline)
               ELSE Slice(smMessage, 0, smMax))]_vars

\* a cut was made at a newline sitting exactly at the halfway index
CutAtNewlineFromHalfwayWitness ==
    /\ smMax >= 2
    /\ Len(smText) > smMax
    /\ Len(smChunks) >= 1
    /\ Len(smChunks[1]) = smMax \div 2
    /\ LastIndex(Slice(smText, 0, smMax), NL) = smMax \div 2
    /\ Len(smMessage) > 0
    /\ smMessage[1] = NL

(* Properties of the parser *)

\* the line asks for an action on a position
Recommends(line) == line.ticker # <<>> /\ line.action # <<>>

KnownTickers(positions) == { positions[k].Ticker : k \in 1..Len(positions) }

\* the position of the portfolio with this ticker
PositionOf(ticker, positions) ==
    positions[Min({ k \in 1..Len(positions) : positions[k].Ticker = ticker })]

\* the response has a heading of the recommendations block, and under it only
\* lines that recommend an action on a known position, each with or without
\* an explanation after it
WellFormedBlock(input, positions) ==
    /\ input.heading # <<>>
    /\ input.body # <<>>
    /\ \A k \in 1..Len(input.body) :
         \/ Recommends(input.body[k]) /\ input.body[k].ticker \in KnownTickers(positions)
         \/ input.body[k] = LineRationale /\ k > 1 /\ Recommends(input.body[k - 1])

\* one recommendation per recommending line of the response, in the order of
\* the lines, with the explanation that follows the line
ExpectedRecommendations(input, positions) ==
    LET at == SelectSeq([k \in 1..Len(input.body) |-> k],
                        LAMBDA k : Recommends(input.body[k]))
    IN  [n \in 1..Len(at) |->
            [Ticker |-> input.body[at[n]].ticker,
             Name |-> PositionOf(input.body[at[n]].ticker, positions).Name,
             Action |-> input.body[at[n]].action,
             Reason |-> IF at[n] + 1 <= Len(input.body)
                           /\ input.body[at[n] + 1] = LineRationale
                        THEN LineRationale.text ELSE <<>>]]

\* C11: for a response with a well-formed recommendations block of N lines
\* that name a known ticker and an action, the parser returns exactly N
\* recommendations, in the order of the lines, each with the ticker and name
\* of the position the line names, the action of the line and the explanation
\* after it, whatever the tickers and the order of the positions
WellFormedBlockParsed ==
    (paPc = "returned" /\ WellFormedBlock(paInput, paPositions))
        => paAnalysis.Recommendations = ExpectedRecommendations(paInput, paPositions)

\* the scan of the recommendations finds nothing in the response: there is no
\* heading of the block, or no line of the response starts with the ticker of
\* a known position
NothingToScan(input, positions) ==
    \/ input.heading = <<>>
    \/ \A k \in 1..Len(input.body) : \A t \in KnownTickers(positions) :
         ~HasPrefix(TrimSpace(input.body[k].text), t)

\* the text holds a byte that is neither white space nor an emphasis delimiter
Legible(text) ==
    \E i \in 1..Len(text) : ~IsSpace(text[i]) /\ text[i] \notin {STAR, UNDERSCORE}

\* one recommendation per position, in the order of the portfolio, by the sign
\* of the expected yield, with the generic rationale
IsYieldFallback(recs, positions) ==
    /\ Len(recs) = Len(positions)
    /\ \A k \in 1..Len(positions) :
         /\ recs[k].Ticker = positions[k].Ticker
         /\ recs[k].Name = positions[k].Name
         /\ recs[k].Reason = FallbackReason
         /\ recs[k].Action =
              (CASE positions[k].ExpectedYield > 0 -> BUY
                 [] positions[k].ExpectedYield < 0 -> SELL
                 [] OTHER -> HOLD)

\* the analysis returned is the fallback: the recommendations by yield, and the
\* diagnostic sentence as the summary
FallbackReturned ==
    /\ IsYieldFallback(paAnalysis.Recommendations, paPositions)
    /\ paAnalysis.Summary = FallbackSummary

\* C12 as stated: whenever the scan finds no recommendation and the response is
\* not empty, the parser returns one recommendation per position, in portfolio
\* order, by the sign of the yield, and the diagnostic summary
FallbackForNonEmptyText ==
    (paPc = "returned" /\ paText # <<>> /\ NothingToScan(paInput, paPositions))
        => FallbackReturned

\* C12, for responses that hold more than white space and emphasis delimiters:
\* whenever the scan finds no recommendation, the parser returns one
\* recommendation per position, in portfolio order, by the sign of the yield,
\* with the generic rationale, and the diagnostic sentence replaces the summary
FallbackForLegibleText ==
    (paPc = "returned" /\ Legible(paText) /\ NothingToScan(paInput, paPositions))
        => FallbackReturned

\* a response with a summary and a block that names no known ticker, parsed
\* for positions with a positive, a negative and no yield
FallbackForLegibleTextWitness ==
    /\ paPc = "returned"
    /\ paInput.head = HeadSummary
    /\ paInput.heading = HeadingEnglish
    /\ paInput.body = <<LineRationale>>
    /\ paPositions = <<PositionGAZP, PositionSBERP, PositionSBER>>
    /\ Len(paAnalysis.Recommendations) = 3
    /\ paAnalysis.Summary = FallbackSummary

\* C13: for every response that is not empty, white space or emphasis
\* delimiters only included, and every portfolio with a position, the parser
\* returns no error and at least one recommendation
AlwaysSomeRecommendation ==
    (paPc = "returned" /\ paText # <<>> /\ paPositions # <<>>)
        => (paAnalysis.err = "nil" /\ Len(paAnalysis.Recommendations) >= 1)

\* the tokens an action may be
ActionTokens == {BUY, SELL, HOLD, LONG, SHORT, <<>>}

\* C14 as stated: every recommendation and every opportunity the parser
\* returns has an action that is BUY, SELL, HOLD, LONG, SHORT or empty
ActionsFromClosedSet ==
    paPc = "returned" =>
        /\ \A k \in 1..Len(paAnalysis.Recommendations) :
             paAnalysis.Recommendations[k].Action \in ActionTokens
        /\ \A k \in 1..Len(paAnalysis.Opportunities) :
             paAnalysis.Opportunities[k].Action \in ActionTokens

\* C14, for the recommendations alone: on the strict and on the fallback path
\* the action of a recommendation is BUY, SELL, HOLD or empty
RecommendationActionsFromClosedSet ==
    paPc = "returned" =>
        \A k \in 1..Len(paAnalysis.Recommendations) :
            paAnalysis.Recommendations[k].Action \in {BUY, SELL, HOLD, <<>>}

\* a line whose text after the hyphen is no token was scanned: its
\* recommendation has the empty action
RecommendationActionsFromClosedSetWitness ==
    /\ paPc = "returned"
    /\ paInput.heading = HeadingEnglish
    /\ paInput.body = <<LineWait, LineRationale, LineGAZP>>
    /\ paPositions = <<PositionSBER, PositionGAZP>>
    /\ Len(paAnalysis.Recommendations) = 2
    /\ paAnalysis.Recommendations[1].Action = <<>>
    /\ paAnalysis.Recommendations[2].Action = HOLD

(* Properties of the scheduler *)

\* the pipeline executions a step starts, each with the number of its copies
\* started
Launched ==
    { r \in BagToSet(runs') :
        /\ r.kind \in PipelineKinds
        /\ r.pc = "GetPortfolio"
        /\ CopiesIn(r, runs') > CopiesIn(r, runs) }

LaunchedScheduled == { r \in Launched : r.kind = "scheduled" }

\* C15 as stated: every pipeline execution, fired by the schedule or started
\* through RunNow or /analyze, has the reminder flag of the day of the month
\* at its start
EveryFlagFromDay ==
    [][\A r \in Launched : r.flag = (today = ReminderDay)]_vars

\* C15, for the executions the schedule fires: the reminder flag of a scheduled
\* execution is true if the day of the month at the fire time is 5 and false
\* on any other day
ScheduledFlagFromDay ==
    [][\A r \in LaunchedScheduled : r.flag = (today = ReminderDay)]_vars

\* scheduled executions with the reminder and without it are in flight
\* together: one fired on the 5th, one on another day
ScheduledFlagFromDayWitness ==
    /\ cronEntries = 1
    /\ \E r1, r2 \in Live :
         /\ r1.kind = "scheduled" /\ r1.flag
         /\ r2.kind = "scheduled" /\ ~r2.flag

\* the step is Scheduler.Start: one more entry, the cron running
IsStartStep == cronEntries' = cronEntries + 1 /\ cronRunning' /\ runs' = runs

\* the step is the call of Scheduler.Stop: the cron not running, Stop waiting
IsStopStep == ~stopWaiting /\ stopWaiting' /\ ~cronRunning' /\ runs' = runs

\* C16: the cron goes from stopped to running only by Start and from running
\* to stopped only by Stop; a step that starts an execution of RunNow, or is a
\* step of one, changes neither the entries of the cron nor its running state
RegistrationChangesOnlyByStartStop ==
    [][/\ (~cronRunning /\ cronRunning') => IsStartStep
       /\ (cronRunning /\ ~cronRunning') => IsStopStep
       /\ cronEntries' # cronEntries => IsStartStep
       /\ runs' # runs => (cronRunning' = cronRunning /\ cronEntries' = cronEntries)]_vars

\* with the cron running on its one entry, RunNow has run twice: one execution
\* failed at the portfolio, one delivered its report
RegistrationChangesOnlyByStartStopWitness ==
    /\ cronRunning /\ cronEntries = 1
    /\ \E r \in Live : r.kind = "runnow" /\ r.pc = "done" /\ PortfolioFailed(r)
    /\ \E r \in Live : r.kind = "runnow" /\ r.pc = "done" /\ AcceptedReports(r) > 0

\* C17: one fire time starts at most one scheduled execution, whatever calls
\* of Start and Stop came before
OneRunPerFireTime ==
    [][\A r \in LaunchedScheduled : CopiesIn(r, runs') - CopiesIn(r, runs) <= 1]_vars

\* the delivery attempt of the execution is made or under way
DeliveryAttempted(r) ==
    \E k \in 1..Len(r.sends) : r.sends[k].what = "report"

\* C18: with the cron stopped no scheduled execution starts; the call of Stop
\* changes no execution; Stop returns only when no scheduled execution is in
\* flight; and a scheduled execution whose advisory was generated makes its
\* delivery attempt, Stop called or not
StopSparesRunsInFlight ==
    [][/\ ~cronRunning => LaunchedScheduled = {}
       /\ (~stopWaiting /\ stopWaiting') => runs' = runs
       /\ (stopWaiting /\ ~stopWaiting') =>
            (\A r \in Live : r.kind = "scheduled" => r.pc = "done")
       /\ \A r \in BagToSet(runs') :
            (r.kind = "scheduled" /\ r.advisory = "ok") => DeliveryAttempted(r)]_vars

\* Stop is waiting, and a scheduled execution is at the api.Send of its report
StopSparesRunsInFlightWitness ==
    /\ stopWaiting /\ ~cronRunning
    /\ \E r \in Live : r.kind = "scheduled" /\ r.pc = "SendMarkdown"

(* Properties of the deadline *)

\* the error runPortfolioAnalysis returns for a failure of this collaborator
\* call (scheduler.go 114, 129, 135); the news fetch has none
StepError(call) ==
    CASE call = "GetPortfolio" -> "failed to get portfolio"
      [] call = "AnalyzePortfolio" -> "failed to analyze portfolio"
      [] call = "SendPortfolioAnalysis" -> "failed to send analysis to Telegram"
      [] OTHER -> "failed to fetch news"

\* C19: when the deadline of an execution has passed during a collaborator
\* call, no further collaborator call is started, and the execution returns
\* the error of the call that was in flight
DeadlineBoundsRun ==
    \A r \in Live :
        (r.kind \in SchedulerKinds /\ Expired(r)) =>
            /\ Len(r.calls) = r.deadlineAt
            /\ r.pc = "done" => r.result = StepError(r.calls[r.deadlineAt])

(* Properties of the bot's update loop *)

\* the update handleUpdates receives in this step, as a sequence of no or one
\* update
Received ==
    IF Waiting # {} /\ updates' = [updates EXCEPT ![Min(Waiting)].handled = TRUE]
    THEN <<updates[Min(Waiting)]>>
    ELSE <<>>

\* C20: the handling of an update from a chat other than the configured one
\* changes no execution: no handler runs, no pipeline execution starts, no
\* message is sent; and every message the bot has handed to api.Send, report,
\* notice or reply, is addressed to the configured chat
OnlyAuthorizedChat ==
    [][/\ \A u \in Range(Received) : ~AuthorizedChat(u.chat) => runs' = runs
       /\ \A r \in BagToSet(runs') : \A k \in 1..Len(r.sends) :
            r.sends[k].to = parseChatID(chatID)]_vars

\* an /analyze from another chat was handled and nothing runs, then one from
\* the configured chat was handled: its reply and its report are addressed
OnlyAuthorizedChatWitness ==
    /\ Len(updates) = 2
    /\ updates[1].kind = "analyze" /\ ~AuthorizedChat(updates[1].chat) /\ updates[1].handled
    /\ updates[2].kind = "analyze" /\ AuthorizedChat(updates[2].chat) /\ updates[2].handled
    /\ \E r \in Live :
         /\ r.kind = "manual" /\ r.pc = "done" /\ AcceptedReports(r) > 0
         /\ Len(r.sends) >= 2
    /\ BagCardinality(runs) = 1

(* Properties of Client.GetPortfolio *)

\* the sum of f[1], ..., f[n]
RECURSIVE SumTo(_, _)
SumTo(f, n) == IF n = 0 THEN 0 ELSE SumTo(f, n - 1) + f[n]

\* the calls of GetPortfolio that returned a portfolio
ReturnedPortfolios ==
    { c \in Live : c.kind = "GetPortfolio" /\ c.pc = "returned" /\ c.err = "" }

\* C21: the portfolio GetPortfolio returns has one position per position of
\* the response, its TotalAmount is the sum of Quantity x CurrentPrice over its
\* positions and its ExpectedYield the sum of their ExpectedYield; both are 0
\* for no position
AggregatesAreSums ==
    \A c \in ReturnedPortfolios :
        LET p == c.portfolio[1]
            n == Len(p.Positions)
        IN  /\ n = Len(c.resp)
            /\ p.TotalAmount =
                 SumTo([k \in 1..n |-> (p.Positions[k].Quantity * p.Positions[k].CurrentPrice) \div 100], n)
            /\ p.ExpectedYield = SumTo([k \in 1..n |-> p.Positions[k].ExpectedYield], n)
            /\ n = 0 => (p.TotalAmount = 0 /\ p.ExpectedYield = 0)

\* a portfolio of three positions was returned, one of them with a loss and
\* one with no price
AggregatesAreSumsWitness ==
    \E c \in ReturnedPortfolios :
        LET p == c.portfolio[1]
        IN  /\ Len(p.Positions) = 3
            /\ \E k \in 1..3 : p.Positions[k].ExpectedYield < 0
            /\ \E k \in 1..3 : p.Positions[k].CurrentPrice = 0
            /\ p.TotalAmount > 0

(* Properties of the order of the steps *)

\* the collaborator calls of runPortfolioAnalysis, in the order of the code
StepOrder == <<"GetPortfolio", "FetchNews", "AnalyzePortfolio", "SendPortfolioAnalysis">>

\* the collaborator calls the execution has made, the sendMessage of an error
\* notice left out
StepsOf(r) == SelectSeq(r.calls, LAMBDA c : c # "sendMessage")

\* C22: the collaborator calls of an execution are a prefix of portfolio
\* fetch, news fetch, advisory generation, delivery, so each is made at most
\* once and in this order; the call in flight is the last one started, the
\* earlier ones have returned; and the delivery is called only when the
\* advisory generation has returned an analysis
StepsInStrictOrder ==
    \A r \in PipelineRuns :
        LET steps == StepsOf(r)
        IN  /\ Len(steps) <= Len(StepOrder)
            /\ steps = SubSeq(StepOrder, 1, Len(steps))
            /\ r.pc \in {"GetPortfolio", "FetchNews", "AnalyzePortfolio"}
                 => (r.calls = steps /\ steps[Len(steps)] = r.pc)
            /\ Len(steps) = 4 => (r.advisory = "ok" /\ r.analysis # <<>>)
            /\ r.advisory # "ok" => DOMAIN ReportSends(r) = {}

\* an execution has made all four calls and returned, its report accepted
StepsInStrictOrderWitness ==
    \E r \in PipelineRuns :
        /\ r.kind = "scheduled"
        /\ r.pc = "done"
        /\ StepsOf(r) = StepOrder
        /\ AcceptedReports(r) > 0

(* Properties of the scan of the recommendations block, ScanSpec *)

\* the call has returned recommendations read from the block, not the fallback
Scanned ==
    /\ paPc = "returned"
    /\ ~IsYieldFallback(paAnalysis.Recommendations, paPositions)

\* the line begins with a known ticker and a separator
StartsTicker(line, positions) ==
    \E k \in 1..Len(positions) :
        \/ HasPrefix(line, positions[k].Ticker \o Colon)
        \/ HasPrefix(line, positions[k].Ticker \o Hyphen)
        \/ HasPrefix(line, positions[k].Ticker \o SpaceHyphen)

\* C23: no recommendation has for rationale a line that begins with a known
\* ticker and a separator, that is, a line that starts a recommendation
RationaleNeverTickerLine ==
    Scanned =>
        \A n \in 1..Len(paAnalysis.Recommendations) :
            ~StartsTicker(paAnalysis.Recommendations[n].Reason, paPositions)

\* C23, the part that holds: a line that begins with the ticker of the
\* recommendation before it is never that recommendation's rationale
RationaleNeverOwnTickerLine ==
    Scanned =>
        \A n \in 1..Len(paAnalysis.Recommendations) :
            LET rec == paAnalysis.Recommendations[n]
            IN  ~\E k \in 1..Len(paInput.body) :
                    /\ paInput.body[k] # <<>>
                    /\ paInput.body[k] = rec.Reason
                    /\ HasPrefix(paInput.body[k], rec.Ticker)

\* two lines of SBER one after the other, read by part_003 into two
\* recommendations
RationaleNeverOwnTickerLineWitness ==
    /\ Scanned
    /\ paInput.revision = "part_003"
    /\ paInput.body = <<LineSBER.text, TextColonOnly>>
    /\ Len(paAnalysis.Recommendations) = 2
    /\ paAnalysis.Recommendations[1].Reason = <<>>

\* the line begins with this ticker and a separator
StartsWith(line, ticker) ==
    \/ HasPrefix(line, ticker \o Colon)
    \/ HasPrefix(line, ticker \o Hyphen)
    \/ HasPrefix(line, ticker \o SpaceHyphen)

\* C24: every recommendation read from the block comes from a line that
\* begins with its ticker and a separator after it; a line that begins with
\* the ticker and goes on with other characters starts none
StartsOnlyAtTickerSeparator ==
    Scanned =>
        \A n \in 1..Len(paAnalysis.Recommendations) :
            \E k \in 1..Len(paInput.body) :
                StartsWith(paInput.body[k], paAnalysis.Recommendations[n].Ticker)

\* no line of the block begins with a ticker of the portfolio
NoLineBeginsWithTicker ==
    \A k \in 1..Len(paInput.body) :
        \A j \in 1..Len(paPositions) :
            ~HasPrefix(paInput.body[k], paPositions[j].Ticker)

\* C24, the part that holds: a line that has a ticker later in the line
\* starts no recommendation; with no line that begins with a ticker the
\* recommendations are those of the fallback
MentionStartsNoRecommendation ==
    (paPc = "returned" /\ NoLineBeginsWithTicker) => ~Scanned

\* a block that names SBER in the middle of its only line has been parsed
MentionStartsNoRecommendationWitness ==
    /\ paPc = "returned"
    /\ paInput.body = <<TextMention>>
    /\ \E j \in 1..Len(paPositions) : Contains(TextMention, paPositions[j].Ticker)
    /\ IsYieldFallback(paAnalysis.Recommendations, paPositions)

\* the tokens of an action
Tokens == {BUY, SELL, HOLD}

\* the line after its first colon or hyphen
RestAfterSeparator(line) ==
    LET at == { i \in 1..Len(line) : line[i] \in {Colon[1], Hyphen[1]} }
    IN  IF at = {} THEN <<>> ELSE SubSeq(line, Min(at) + 1, Len(line))

\* the token that occurs first in the text, none when the text has no token
FirstToken(rest) ==
    LET found == { t \in Tokens : Contains(rest, t) }
    IN  IF found = {} THEN <<>>
        ELSE CHOOSE t \in found : \A u \in found : IndexOf(rest, t) <= IndexOf(rest, u)

\* the first line of the block is a ticker line, and the first recommendation
\* is read from it
FirstLineRead ==
    /\ Scanned
    /\ paInput.body # <<>>
    /\ \E j \in 1..Len(paPositions) : StartsWith(paInput.body[1], paPositions[j].Ticker)
    /\ paAnalysis.Recommendations # <<>>

\* C25: the action of a ticker line is the token BUY, SELL or HOLD, in
\* upper case, that occurs first after the separator of the line, and is empty
\* when none occurs
ActionIsFirstToken ==
    FirstLineRead =>
        paAnalysis.Recommendations[1].Action = FirstToken(RestAfterSeparator(paInput.body[1]))

\* the line has at most one of the tokens in whatever case, and has it in
\* upper case after a hyphen
OneTokenAfterHyphen(line) ==
    LET found == { t \in Tokens : Contains(ToUpper(line), t) }
        parts == SplitN2(line, Hyphen)
    IN  /\ Cardinality(found) <= 1
        /\ \A t \in found : Len(parts) = 2 /\ Contains(parts[2], t)

\* C25, the part that holds: a ticker line with one token in upper case
\* after a hyphen has that token for action, and a line with no token in
\* whatever case has no action
ActionIsTheOnlyToken ==
    (FirstLineRead /\ OneTokenAfterHyphen(paInput.body[1])) =>
        paAnalysis.Recommendations[1].Action = FirstToken(RestAfterSeparator(paInput.body[1]))

\* 'SBER: Sberbank - wait' has been read by part_003 into a recommendation
\* with no action
ActionIsTheOnlyTokenWitness ==
    /\ FirstLineRead
    /\ paInput.revision = "part_003"
    /\ paInput.body[1] = LineWait.text
    /\ paAnalysis.Recommendations[1].Action = <<>>

\* the rationale of the first line of the block: the first line after it that
\* is not blank, without the prefix 'Explanation:', unless it starts a ticker
ExpectedRationale(body, positions) ==
    LET after == { k \in 2..Len(body) : TrimSpace(body[k]) # <<>> }
    IN  IF after = {} THEN <<>>
        ELSE LET line == TrimSpace(body[Min(after)])
             IN  IF StartsTicker(line, positions) THEN <<>>
                 ELSE IF HasPrefix(line, ExplanationPrefix)
                 THEN TrimSpace(TrimPrefix(line, ExplanationPrefix))
                 ELSE line

\* C26: the rationale of a recommendation is the first line after its ticker
\* line that is not blank, blank lines skipped, taken as it is but for a
\* prefix 'Explanation:', which is removed; nothing when that line starts a
\* ticker
RationaleIsNextNonBlankLine ==
    FirstLineRead =>
        paAnalysis.Recommendations[1].Reason = ExpectedRationale(paInput.body, paPositions)

\* the line is not blank, names no ticker of the portfolio and has no prefix
PlainLine(line, positions) ==
    /\ TrimSpace(line) # <<>>
    /\ ~HasPrefix(line, ExplanationPrefix)
    /\ \A j \in 1..Len(positions) : ~Contains(line, positions[j].Ticker)

\* C26, the part that holds: a plain line right after the ticker line is the
\* rationale, as it is, when no line with the prefix comes after it
RationaleIsNextPlainLine ==
    ( /\ FirstLineRead
      /\ Len(paInput.body) >= 2
      /\ PlainLine(paInput.body[2], paPositions)
      /\ \A k \in 3..Len(paInput.body) : ~HasPrefix(paInput.body[k], ExplanationPrefix) )
        => paAnalysis.Recommendations[1].Reason = paInput.body[2]

\* part_002 has read a ticker line and the plain line after it
RationaleIsNextPlainLineWitness ==
    /\ FirstLineRead
    /\ paInput.revision = "part_002"
    /\ Len(paInput.body) >= 2
    /\ paInput.body[2] = LineRationale.text
    /\ paAnalysis.Recommendations[1].Reason = LineRationale.text

(* Properties of the end of the recommendations block, ParseSpec *)

\* the lines of the response from the marker OPPORTUNITIES: on, trimmed
LinesFromOpportunities(input) ==
    LET lines == Split(input.tail, <<NL>>)
    IN  { TrimSpace(lines[k]) : k \in 1..Len(lines) } \ { <<>> }

\* the lines of the block before the marker that begin with a known ticker
TickerLinesBefore(input, positions) ==
    { k \in 1..Len(input.body) :
        \E j \in 1..Len(positions) : HasPrefix(input.body[k].text, positions[j].Ticker) }

\* C27: the recommendations block ends at the marker OPPORTUNITIES:; no line
\* at or after the marker is the rationale of a recommendation, and none adds
\* a recommendation to those of the lines before the marker
BlockEndsAtOpportunities ==
    (paPc = "returned" /\ ~IsYieldFallback(paAnalysis.Recommendations, paPositions)) =>
        /\ \A n \in 1..Len(paAnalysis.Recommendations) :
               paAnalysis.Recommendations[n].Reason \notin LinesFromOpportunities(paInput)
        /\ Len(paAnalysis.Recommendations) <= Cardinality(TickerLinesBefore(paInput, paPositions))

(* Properties of the summary, ScanSpec *)

\* the lines before the heading
HeadLines == Split(paInput.head, <<NL>>)

\* the first line that begins with SUMMARY:, 0 when there is none
SummaryLine ==
    LET found == { i \in 1..Len(HeadLines) : HasPrefix(HeadLines[i], SummaryPrefix) }
    IN  IF found = {} THEN 0 ELSE Min(found)

\* the rest of the line after the prefix, or when it is empty the first line
\* after it that is not blank
ExpectedSummary ==
    LET rest == TrimSpace(TrimPrefix(HeadLines[SummaryLine], SummaryPrefix))
        after == { k \in (SummaryLine + 1)..Len(HeadLines) : TrimSpace(HeadLines[k]) # <<>> }
    IN  IF rest # <<>> THEN rest
        ELSE IF after = {} THEN <<>>
        ELSE TrimSpace(HeadLines[Min(after)])

\* C28: with a line that begins with SUMMARY: and at least one recommendation
\* parsed, the summary is the rest of that line, trimmed, and when that is
\* empty the first line after it that is not empty, blank lines skipped
SummaryFromNextNonBlankLine ==
    (Scanned /\ SummaryLine > 0) => paAnalysis.Summary = ExpectedSummary

\* the summary is on the line of the prefix or on the line right after it
SummaryAdjacent ==
    /\ SummaryLine > 0
    /\ \/ TrimSpace(TrimPrefix(HeadLines[SummaryLine], SummaryPrefix)) # <<>>
       \/ /\ SummaryLine + 1 <= Len(HeadLines)
          /\ TrimSpace(HeadLines[SummaryLine + 1]) # <<>>

\* C28, the part that holds: the summary is the rest of the line of the
\* prefix, and when that is empty the line right after it, if not blank
SummaryFromLineOrNext ==
    (Scanned /\ SummaryAdjacent) => paAnalysis.Summary = ExpectedSummary

\* the summary has been taken from the line after an empty 'SUMMARY:' line
SummaryFromLineOrNextWitness ==
    /\ Scanned
    /\ paInput.head = HeadSummary
    /\ paAnalysis.Summary = <<65, 108, 108, 32, 103, 111, 111, 100, 46>>

(* Properties of the opportunities block, ParseSpec *)

\* the lines after the marker OPPORTUNITIES: of the response
OpportunityLines == Split(SplitN2(paInput.tail, OpportunitiesMarker)[2], <<NL>>)

\* LONG or SHORT, the token the text contains
DirectionIn(text) ==
    IF Contains(text, LONG) THEN LONG
    ELSE IF Contains(text, SHORT) THEN SHORT
    ELSE <<>>

\* the entry of the line k of the block, 'ticker[:name] - action', with the
\* explanation of the line after it
ExpectedOpportunity(k, action) ==
    LET parts == SplitN2(TrimSpace(OpportunityLines[k]), Hyphen)
        tn == SplitN2(TrimSpace(parts[1]), Colon)
        next == IF k + 1 <= Len(OpportunityLines)
                THEN TrimSpace(OpportunityLines[k + 1]) ELSE <<>>
    IN  [Ticker |-> TrimSpace(tn[1]),
         Name |-> IF Len(tn) > 1 THEN TrimSpace(tn[2]) ELSE <<>>,
         Action |-> action,
         Reason |-> IF HasPrefix(next, ExplanationPrefix)
                    THEN TrimSpace(TrimPrefix(next, ExplanationPrefix)) ELSE <<>>]

\* the lines of the block that ask for an opportunity: not blank, with a
\* hyphen, and not an explanation
OpportunityAt ==
    SelectSeq([k \in 1..Len(OpportunityLines) |-> k],
              LAMBDA k : /\ Contains(OpportunityLines[k], Hyphen)
                         /\ ~HasPrefix(TrimSpace(OpportunityLines[k]), ExplanationPrefix))

\* C29: one entry of Opportunities per opportunity line, in the order of the
\* text, with the ticker and the name of the left part, the action LONG or
\* SHORT the right part contains and the explanation of the next line; an
\* explanation line is no entry
OpportunitiesWithDirection ==
    (paPc = "returned" /\ paInput.tail # <<>>) =>
        paAnalysis.Opportunities =
            [n \in 1..Len(OpportunityAt) |->
                ExpectedOpportunity(OpportunityAt[n],
                    DirectionIn(SplitN2(OpportunityLines[OpportunityAt[n]], Hyphen)[2]))]

\* C29, the part that holds: one entry per opportunity line, in the order of
\* the text, with the ticker, the name and the explanation as above, and for
\* action the whole right part of the line, trimmed
OpportunitiesWithRightPart ==
    (paPc = "returned" /\ paInput.tail # <<>>) =>
        paAnalysis.Opportunities =
            [n \in 1..Len(OpportunityAt) |->
                ExpectedOpportunity(OpportunityAt[n],
                    TrimSpace(SplitN2(OpportunityLines[OpportunityAt[n]], Hyphen)[2]))]

\* the opportunity LKOH with its explanation has been parsed
OpportunitiesWithRightPartWitness ==
    /\ paPc = "returned"
    /\ paInput.tail = TailOpportunity
    /\ Len(paAnalysis.Opportunities) = 1
    /\ paAnalysis.Opportunities[1].Action = LONG
    /\ paAnalysis.Opportunities[1].Reason # <<>>

(* Properties of the monthly reminder, ReminderSpec *)

\* the sentence of the request that asks for the reminder
MonthlyReview == UserPrompt(TRUE)[Len(UserPrompt(TRUE))]

\* the reminder block of the report, as sent with and without markdown
ReminderBlock(markdown) ==
    IF markdown THEN ReminderHeader \o ReminderBody
    ELSE stripMarkdown(ReminderHeader \o ReminderBody)

\* C30: the flag given to an execution is the flag of its request to the
\* advisor, the IsMonthlyReminder of its analysis, parsed or fallback, and
\* every report it sends holds the reminder block exactly when the flag is set
ReminderFlagCarried ==
    \A r \in PipelineRuns :
        /\ r.prompt # <<>> => (MonthlyReview \in Range(r.prompt) <=> r.flag)
        /\ r.analysis # <<>> => r.analysis[1].IsMonthlyReminder = r.flag
        /\ \A n \in 1..Len(r.sends) :
               r.sends[n].what = "report" =>
                   (Contains(r.sends[n].text, ReminderBlock(r.sends[n].markdown)) <=> r.flag)

\* an execution with the flag set has got the fallback analysis and its report,
\* with the reminder, has been accepted
ReminderFlagCarriedWitness ==
    \E r \in PipelineRuns :
        /\ r.flag
        /\ r.pc = "done"
        /\ r.analysis # <<>>
        /\ r.analysis[1].Summary = FallbackSummary
        /\ AcceptedReports(r) > 0
        /\ Contains(r.sends[1].text, ReminderBlock(TRUE))

(* Properties of the cycles of the scheduler *)

\* the scheduled executions that returned an error to the func of the cron
FailedScheduled(bag) ==
    { r \in BagToSet(bag) : r.kind = "scheduled" /\ r.pc = "done" /\ r.result # "ok" }

\* the cron has an entry to fire and the model has room for its executions
CronCanFire ==
    cronRunning /\ cronEntries > 0 /\ BagCardinality(runs) + cronEntries <= MaxRuns

\* C31: the step in which a scheduled execution returns an error leaves the
\* cron running and its entries registered; with a failed execution behind
\* it the cron fires as it does otherwise; and the executions a firing starts
\* are new ones, at the portfolio fetch with nothing fetched
FailedRunLeavesCycles ==
    [][ /\ FailedScheduled(runs') # FailedScheduled(runs) /\ FailedScheduled(runs') # {}
          => /\ cronRunning' = cronRunning
             /\ cronEntries' = cronEntries
             /\ stopWaiting' = stopWaiting
        /\ (CronCanFire /\ FailedScheduled(runs) # {}) => ENABLED CronFire
        /\ BagCardinality(runs') > BagCardinality(runs)
          => \A r \in BagToSet(runs') :
               (CopiesIn(r, runs') > CopiesIn(r, runs) /\ r.kind = "scheduled")
                  => r = NewRun("scheduled", today = ReminderDay)
      ]_vars

\* with one entry registered, an execution of the cron has returned an error
\* and an execution of a later firing has delivered its report
FailedRunLeavesCyclesWitness ==
    /\ cronEntries = 1
    /\ cronRunning
    /\ FailedScheduled(runs) # {}
    /\ \E r \in Live :
         /\ r.kind = "scheduled"
         /\ r.pc = "done"
         /\ r.result = "ok"
         /\ AcceptedReports(r) > 0

(* Properties of the update loop and the executions /analyze starts *)

\* an execution started by /analyze is inside a collaborator call
ManualInFlight == \E r \in Live : r.kind = "manual" /\ r.pc # "done"

\* handleUpdates is at its select with an update in the channel, and the model
\* has room for the execution of a handler
LoopCanReceive ==
    /\ botState = "listening"
    /\ ~HandlerBusy
    /\ Waiting # {}
    /\ BagCardinality(runs) < MaxRuns

\* C32: with an execution started by /analyze in flight the update loop
\* receives the next update as it does otherwise; and the step that handles
\* an /analyze of the configured chat ends with the update handled and the
\* execution it started still at its first call
ManualRunNeverBlocksLoop ==
    [][ /\ (ManualInFlight /\ LoopCanReceive) => ENABLED HandleUpdate
        /\ \A u \in Range(Received) :
             (u.kind = "analyze" /\ AuthorizedChat(u.chat))
                => /\ updates'[Min(Waiting)].handled
                   /\ \E r \in BagToSet(runs') :
                        /\ r.kind = "manual"
                        /\ r.pc = "GetPortfolio"
                        /\ CopiesIn(r, runs') > CopiesIn(r, runs)
      ]_vars

\* an /analyze of the configured chat was handled, and with its execution in
\* flight a /status of that chat was received and answered
ManualRunNeverBlocksLoopWitness ==
    /\ Len(updates) = 2
    /\ updates[1].kind = "analyze" /\ AuthorizedChat(updates[1].chat) /\ updates[1].handled
    /\ updates[2].kind = "status" /\ AuthorizedChat(updates[2].chat) /\ updates[2].handled
    /\ \E r \in Live : r.kind = "manual" /\ r.pc = "AnalyzePortfolio"
    /\ \E r \in Live : r.kind = "command" /\ r.sends[1].text = StatusText

(* Properties of the termination of splitMessage, SplitLiveSpec *)

\* splitMessage has returned, and no chunk of its result is empty
ReturnedNonEmptyChunks ==
    /\ smPc = "done"
    /\ \A k \in 1..Len(smChunks) : smChunks[k] # <<>>

\* C33: with a maxLength of 1 or more every iteration of the loop that goes on
\* to another one has removed at least one byte from the remaining text, and
\* the chunk it appended is not empty
EveryIterationShortens ==
    [][ (smMax >= 1 /\ smPc = "loop" /\ smPc' = "loop")
          => /\ Len(smMessage') < Len(smMessage)
             /\ smChunks'[Len(smChunks')] # <<>>
      ]_vars

\* C33, the part that holds: for every text that is not empty and every
\* maxLength of 2 or more splitMessage returns, and no chunk it returns is empty
SplitTerminatesFromTwo == <>(smMax < 2 \/ smText = <<>> \/ ReturnedNonEmptyChunks)

\* a text longer than maxLength whose only newline of the first window is its
\* first byte has been split
SplitTerminatesFromTwoWitness ==
    /\ ReturnedNonEmptyChunks
    /\ smMax >= 2
    /\ Len(smText) > smMax
    /\ smText[1] = NL
    /\ \A i \in 2..smMax : smText[i] # NL
    /\ Len(smChunks) >= 2

(* Properties of the payloads of one sendMessage, DeliverySpec *)

\* the calls of SendMessage that have entered sendMessage
SendMessageRuns == {r \in Live : r.kind = "call" /\ "sendMessage" \in Range(r.calls)}

\* the payloads of the call r that api.Send has accepted
Delivered(r) == {k \in 1..Len(r.sends) : r.sends[k].outcome = "accepted"}

\* C34: the payloads of a sendMessage are the chunks of its text in chunk
\* order, each handed to api.Send after the one before it was accepted; a
\* rejected chunk i is the last one handed over, the error names part i, and
\* the chunks before i stay delivered
ChunksSentInOrderUntilRejected ==
    \A r \in SendMessageRuns :
      \E text \in DeliveryTexts :
        LET chunks == SendMessageChunks(text)
            n == Len(r.sends)
        IN /\ n \in 1..Len(chunks)
           /\ \A k \in 1..n : r.sends[k].text = chunks[k]
           /\ r.queue = SubSeq(chunks, n + 1, Len(chunks))
           /\ \A k \in 1..(n - 1) : k \in Delivered(r)
           /\ r.sends[n].outcome = "rejected"
                => /\ r.pc = "done"
                   /\ r.result = IF Len(chunks) > 1
                                 THEN "failed to send Telegram message part " \o ToString(n)
                                 ELSE "failed to send Telegram message"
           /\ (r.pc = "done" /\ r.result = "ok") => Delivered(r) = 1..Len(chunks)
           /\ r.pc = "done" => r.result = "ok" \/ r.sends[n].outcome = "rejected"

\* the second of three chunks was rejected: the first is delivered, the third
\* was never handed over, and the error names part 2
ChunksSentInOrderUntilRejectedWitness ==
    \E r \in SendMessageRuns :
      /\ r.pc = "done"
      /\ Len(r.sends) = 2
      /\ r.sends[1].outcome = "accepted"
      /\ r.sends[2].outcome = "rejected"
      /\ r.queue # <<>>
      /\ r.result = "failed to send Telegram message part 2"

(* Properties of the bot after Stop has returned, UpdateSpec *)

\* the messages handed to api.Send so far by the executions in the bag
NumSends(bag) ==
    LET RECURSIVE Sum(_)
        Sum(S) == IF S = {} THEN 0
                  ELSE LET r == CHOOSE x \in S : TRUE
                       IN Len(r.sends) * CopiesIn(r, bag) + Sum(S \ {r})
    IN Sum(BagToSet(bag))

\* C35: after Stop has returned no update is received, no execution started
\* by /analyze is in flight and no message is handed to api.Send
NoWorkAfterStop ==
    [][ botState = "stopped"
          => /\ updates' = updates
             /\ ~ManualInFlight
             /\ NumSends(runs') <= NumSends(runs)
      ]_vars

\* C35, the part that holds: after Stop has returned the bot stays stopped,
\* the loop receives no update and is in no handler, and no execution starts
UpdateLoopExitedAfterStop ==
    [][ botState = "stopped"
          => /\ botState' = "stopped"
             /\ updates' = updates
             /\ ~HandlerBusy
             /\ \A r \in BagToSet(runs') : CopiesIn(r, runs') > CopiesIn(r, runs) => r.pc # "GetPortfolio"
             /\ BagCardinality(runs') <= BagCardinality(runs)
      ]_vars

\* Stop has returned with an update still waiting in the channel, after a
\* command handler has sent its message
UpdateLoopExitedAfterStopWitness ==
    /\ botState = "stopped"
    /\ Waiting # {}
    /\ \E r \in Live : r.kind = "command" /\ r.pc = "done" /\ "sendMessage" \in Range(r.calls)

====
